---- MODULE Spec2Model ----
(***************************************************************************)
(* Model of the AURA adaptive message controller (createLLMController in   *)
(* engine/llmMessaging.ts) together with the enrichment call it drives     *)
(* (generateLLMMessages / parseLLMResponse).                               *)
(*                                                                         *)
(* The JavaScript runtime is part of the state: `timers` is the set of     *)
(* timeouts the runtime still holds (setTimeout adds one, clearTimeout and *)
(* firing remove one) and `execs` is the list of execute() invocations,    *)
(* each with the AbortSignal it created and the way its awaited network    *)
(* call settled.  A request()/forceRequest() invocation is identified by   *)
(* its index in `reqs`; that index stands for the (ctx, config, onResult,  *)
(* onError) tuple the invocation passed, which is what the timer closure   *)
(* and execute() capture.                                                  *)
(***************************************************************************)
EXTENDS Integers, Sequences, FiniteSets

\* ---------------------------------------------------------------- bounds

\* Number of request()/forceRequest() invocations explored in one run.
MaxRequests == 3

\* Largest recentHighCount explored.
MaxHigh == 3

\* ------------------------------------------------------------- constants

RESIDENT_CAP == 200
STAFF_CAP == 300
EXPLANATION_CAP == 500

Min(a, b) == IF a < b THEN a ELSE b

\* ------------------------------------------------ enrichment call payload

\* A field of the parsed JSON object: absent, present but not a string
\* (null, number, object ...), or a string of a given length.
Absent == [t |-> "absent", len |-> 0]
NonString == [t |-> "other", len |-> 0]
Str(n) == [t |-> "str", len |-> n]

\* choices[0].message.content as delivered by the service.  json is
\*   "invalid": text JSON.parse rejects (the empty string included, which
\*              is what a response without choices yields),
\*   "null":    the JSON literal null,
\*   "scalar":  a JSON number, string, boolean or array,
\*   "object":  a JSON object with the three fields below.
Content(j, r, s, e) ==
  [json |-> j, residentMessage |-> r, staffMessage |-> s, explanationText |-> e]

Contents ==
  { Content("invalid", Absent, Absent, Absent),
    Content("null", Absent, Absent, Absent),
    Content("scalar", Absent, Absent, Absent),
    Content("object", Absent, Absent, Absent),
    Content("object", NonString, NonString, NonString),
    Content("object", Str(40), NonString, Str(120)),
    Content("object", Str(250), Str(350), Str(600)) }

\* What the awaited fetch produces: a rejection (network failure, or an
\* AbortError once the signal was aborted) or an HTTP response.
Reject(n) == [kind |-> "reject", name |-> n, ok |-> FALSE,
              content |-> Content("invalid", Absent, Absent, Absent)]
Http(ok, c) == [kind |-> "http", name |-> "", ok |-> ok, content |-> c]

\* A non-2xx response carries an error body, typically a JSON object
\* without any of the three fields.
Responses ==
  { Reject("TypeError") }
    \cup { Http(FALSE, Content("object", Absent, Absent, Absent)) }
    \cup { Http(TRUE, c) : c \in Contents }

\* How a call's fetch ended, as seen on the wire.
Wire(resp) ==
  IF resp.kind = "reject"
  THEN (IF resp.name = "AbortError" THEN "abort" ELSE "network_error")
  ELSE (IF resp.ok THEN "http_ok" ELSE "http_error")

\* Results of the async function: a value or a thrown error.
Returned(m) == [ok |-> TRUE, name |-> "", msgs |-> m]
NoMsgs ==
  [residentMessage |-> [t |-> "null", len |-> 0],
   staffMessage |-> [t |-> "null", len |-> 0],
   explanationText |-> [t |-> "default", len |-> 0]]
Thrown(n) == [ok |-> FALSE, name |-> n, msgs |-> NoMsgs]

\* typeof f === 'string' ? f.slice(0, cap) : null
sliceOrNull(f, cap) ==
  IF f.t = "str" THEN [t |-> "str", len |-> Min(f.len, cap)]
  ELSE [t |-> "null", len |-> 0]

\* typeof f === 'string' ? f.slice(0, cap) : <fixed default sentence>
sliceOrDefault(f, cap) ==
  IF f.t = "str" THEN [t |-> "str", len |-> Min(f.len, cap)]
  ELSE [t |-> "default", len |-> 0]

parseLLMResponse(raw) ==
  IF raw.json = "invalid" THEN Thrown("SyntaxError")      \* JSON.parse throws
  ELSE IF raw.json = "null" THEN Thrown("TypeError")      \* null.residentMessage
  ELSE Returned(
         [residentMessage |-> sliceOrNull(raw.residentMessage, RESIDENT_CAP),
          staffMessage |-> sliceOrNull(raw.staffMessage, STAFF_CAP),
          explanationText |-> sliceOrDefault(raw.explanationText, EXPLANATION_CAP)])

\* Variant: the response's ok flag is not consulted.
generateLLMMessagesIgnoresStatus(resp) ==
  IF resp.kind = "reject" THEN Thrown(resp.name)
  ELSE parseLLMResponse(resp.content)

generateLLMMessages(resp) ==
  IF resp.kind = "reject" THEN Thrown(resp.name)
  ELSE IF ~resp.ok THEN Thrown("Error")                   \* LLM API error <status>
  ELSE parseLLMResponse(resp.content)

\* ------------------------------------------------------- decision engine
\* Scores and deviations are fixed-point numbers: the integer n stands for
\* n / Scale.  Signals, hours, heart rate and SpO2 are whole numbers.

Scale == 1000

\* Factor weights are fixed-point with unit 1/WeightScale, which represents
\* x/100 and x/120 exactly.
WeightScale == 1200

Max(a, b) == IF a > b THEN a ELSE b

\* JavaScript's %: the result has the sign of the dividend.
JsMod(a, b) == IF a >= 0 THEN a % b ELSE 0 - ((0 - a) % b)

\* Largest r with r * r <= n, searched between lo and hi.
RECURSIVE ISqrtIn(_, _, _)
ISqrtIn(n, lo, hi) ==
  IF lo >= hi THEN lo
  ELSE LET mid == (lo + hi + 1) \div 2
       IN  IF mid * mid <= n THEN ISqrtIn(n, mid, hi) ELSE ISqrtIn(n, lo, mid - 1)

DEFAULT_BASELINE ==
  [mobilityMean |-> 70, mobilityVar |-> 100,
   restlessnessMean |-> 25, restlessnessVar |-> 64,
   speechMean |-> 20, speechVar |-> 49,
   socialMean |-> 30, socialVar |-> 81,
   sleepStart |-> 22, sleepEnd |-> 6]

defaultState ==
  [timeOfDay |-> 14, mobility |-> 70, restlessness |-> 25, speechDrift |-> 20,
   socialIsolation |-> 30, useWearables |-> FALSE, heartRate |-> 72, spO2 |-> 97,
   staffLoad |-> 40]

EPS == 1

\* Math.sqrt(x) in fixed point, for x whose root lies below 46.
ISqrt(x) == ISqrtIn(x * Scale * Scale, 0, Min((x + 1) * Scale, 46 * Scale))

\* The roots computeDeviations() takes with the default baseline, computed
\* once.
Roots ==
  { << x, ISqrt(x) >> :
      x \in { DEFAULT_BASELINE.mobilityVar + EPS, DEFAULT_BASELINE.restlessnessVar + EPS,
              DEFAULT_BASELINE.speechVar + EPS, DEFAULT_BASELINE.socialVar + EPS } }

\* Math.sqrt(x)
Sqrt(x) ==
  IF \E p \in Roots : p[1] = x THEN (CHOOSE p \in Roots : p[1] = x)[2] ELSE ISqrt(x)

\* (current - mean) / Math.sqrt(variance + EPS)
norm(current, mean, variance) ==
  LET num == (current - mean) * Scale * Scale
      den == Sqrt(variance + EPS)
  IN  IF num >= 0 THEN num \div den ELSE 0 - ((0 - num) \div den)

computeDeviations(baseline, state) ==
  [mobility |-> 0 - norm(state.mobility, baseline.mobilityMean, baseline.mobilityVar),
   restlessness |-> norm(state.restlessness, baseline.restlessnessMean,
                         baseline.restlessnessVar),
   speech |-> norm(state.speechDrift, baseline.speechMean, baseline.speechVar),
   social |-> norm(state.socialIsolation, baseline.socialMean, baseline.socialVar)]

\* Variant: the hour is used as given, without normalisation.
isNightHourRaw(hour, baseline) ==
  IF baseline.sleepStart > baseline.sleepEnd
  THEN hour >= baseline.sleepStart \/ hour < baseline.sleepEnd
  ELSE hour >= baseline.sleepStart /\ hour < baseline.sleepEnd

isNightHour(hour, baseline) ==
  LET h == JsMod(JsMod(hour, 24) + 24, 24)
  IN  IF baseline.sleepStart > baseline.sleepEnd
      THEN h >= baseline.sleepStart \/ h < baseline.sleepEnd
      ELSE h >= baseline.sleepStart /\ h < baseline.sleepEnd

\* clamp(v, 0, 100)
clamp(v) == Max(0, Min(100 * Scale, v))

\* Variant: the fall score is not clamped.
computeRisksUnclamped(state, deviations, baseline) ==
  LET night == isNightHour(state.timeOfDay, baseline)
      fall ==
        (100 - state.mobility) * ((35 * Scale) \div 100)
        + state.restlessness * ((20 * Scale) \div 100)
        + (IF night THEN 18 * Scale ELSE 0)
        + Max(0, deviations.mobility) * 5
        + Max(0, deviations.restlessness) * 3
        + (IF state.useWearables /\ state.heartRate > 110
           THEN ((state.heartRate - 110) * Scale) \div 2 ELSE 0)
        + (IF state.useWearables /\ state.spO2 < 92
           THEN (92 - state.spO2) * 3 * Scale ELSE 0)
      cognitive ==
        state.speechDrift * ((45 * Scale) \div 100)
        + (IF night THEN state.restlessness * ((25 * Scale) \div 100) ELSE 0)
        + Max(0, deviations.speech) * 4
      activityProxy ==
        state.mobility * ((3 * Scale) \div 10)
        + (100 - state.restlessness) * ((2 * Scale) \div 10)
      loneliness ==
        state.socialIsolation * ((50 * Scale) \div 100)
        + (Max(0, 50 * Scale - activityProxy) * 3) \div 10
        + Max(0, deviations.social) * 4
      c == clamp(cognitive)
      l == clamp(loneliness)
  IN  [fall |-> fall, cognitive |-> c, loneliness |-> l,
       overall |-> clamp((fall * 4 + c * 3 + l * 3) \div 10)]

\* Variant: the vitals count whether or not wearables are in use.
computeRisksVitalsAlways(state, deviations, baseline) ==
  LET night == isNightHour(state.timeOfDay, baseline)
      fall ==
        (100 - state.mobility) * ((35 * Scale) \div 100)
        + state.restlessness * ((20 * Scale) \div 100)
        + (IF night THEN 18 * Scale ELSE 0)
        + Max(0, deviations.mobility) * 5
        + Max(0, deviations.restlessness) * 3
        + (IF state.heartRate > 110
           THEN ((state.heartRate - 110) * Scale) \div 2 ELSE 0)
        + (IF state.spO2 < 92
           THEN (92 - state.spO2) * 3 * Scale ELSE 0)
      cognitive ==
        state.speechDrift * ((45 * Scale) \div 100)
        + (IF night THEN state.restlessness * ((25 * Scale) \div 100) ELSE 0)
        + Max(0, deviations.speech) * 4
      activityProxy ==
        state.mobility * ((3 * Scale) \div 10)
        + (100 - state.restlessness) * ((2 * Scale) \div 10)
      loneliness ==
        state.socialIsolation * ((50 * Scale) \div 100)
        + (Max(0, 50 * Scale - activityProxy) * 3) \div 10
        + Max(0, deviations.social) * 4
      f == clamp(fall)
      c == clamp(cognitive)
      l == clamp(loneliness)
  IN  [fall |-> f, cognitive |-> c, loneliness |-> l,
       overall |-> clamp((f * 4 + c * 3 + l * 3) \div 10)]

computeRisks(state, deviations, baseline) ==
  LET night == isNightHour(state.timeOfDay, baseline)
      fall ==
        (100 - state.mobility) * ((35 * Scale) \div 100)
        + state.restlessness * ((20 * Scale) \div 100)
        + (IF night THEN 18 * Scale ELSE 0)
        + Max(0, deviations.mobility) * 5
        + Max(0, deviations.restlessness) * 3
        + (IF state.useWearables /\ state.heartRate > 110
           THEN ((state.heartRate - 110) * Scale) \div 2 ELSE 0)
        + (IF state.useWearables /\ state.spO2 < 92
           THEN (92 - state.spO2) * 3 * Scale ELSE 0)
      cognitive ==
        state.speechDrift * ((45 * Scale) \div 100)
        + (IF night THEN state.restlessness * ((25 * Scale) \div 100) ELSE 0)
        + Max(0, deviations.speech) * 4
      activityProxy ==
        state.mobility * ((3 * Scale) \div 10)
        + (100 - state.restlessness) * ((2 * Scale) \div 10)
      loneliness ==
        state.socialIsolation * ((50 * Scale) \div 100)
        + (Max(0, 50 * Scale - activityProxy) * 3) \div 10
        + Max(0, deviations.social) * 4
      f == clamp(fall)
      c == clamp(cognitive)
      l == clamp(loneliness)
  IN  [fall |-> f, cognitive |-> c, loneliness |-> l,
       overall |-> clamp((f * 4 + c * 3 + l * 3) \div 10)]

\* Variant: the thresholds belong to the lower band.
urgencyBandInclusive(score) ==
  IF score <= 40 * Scale THEN "Low"
  ELSE IF score <= 70 * Scale THEN "Medium"
  ELSE "High"

urgencyBand(score) ==
  IF score < 40 * Scale THEN "Low"
  ELSE IF score < 70 * Scale THEN "Medium"
  ELSE "High"

\* One checklist rule: the factor when the condition holds.
Rule(cond, name, weight) ==
  IF cond THEN << [factor |-> name, weight |-> weight] >> ELSE << >>

\* Variant: a sort that is not stable puts the later of two equal weights
\* first.
RECURSIVE sortByWeightUnstable(_)
sortByWeightUnstable(fs) ==
  IF fs = << >> THEN << >>
  ELSE LET i == CHOOSE k \in DOMAIN fs :
                  \A j \in DOMAIN fs :
                    \/ fs[k].weight > fs[j].weight
                    \/ fs[k].weight = fs[j].weight /\ k >= j
       IN  << fs[i] >>
           \o sortByWeightUnstable(SubSeq(fs, 1, i - 1) \o SubSeq(fs, i + 1, Len(fs)))

\* Array.prototype.sort((a, b) => b.weight - a.weight): stable, descending.
RECURSIVE sortByWeight(_)
sortByWeight(fs) ==
  IF fs = << >> THEN << >>
  ELSE LET i == CHOOSE k \in DOMAIN fs :
                  \A j \in DOMAIN fs :
                    \/ fs[k].weight > fs[j].weight
                    \/ fs[k].weight = fs[j].weight /\ k <= j
       IN  << fs[i] >> \o sortByWeight(SubSeq(fs, 1, i - 1) \o SubSeq(fs, i + 1, Len(fs)))

\* Variant: the default factor is pushed whatever the checklist found.
checklistAlwaysDefault(state, deviations, baseline) ==
  LET night == isNightHour(state.timeOfDay, baseline)
  IN  Rule(state.mobility < 50, "Reduced mobility stability",
           ((100 - state.mobility) * WeightScale) \div 100)
      \o Rule(state.restlessness > 40, "Elevated restlessness",
              (state.restlessness * WeightScale) \div 100)
      \o Rule(night, "Nighttime hours", (6 * WeightScale) \div 10)
      \o Rule(state.speechDrift > 35, "Speech clarity change",
              (state.speechDrift * WeightScale) \div 100)
      \o Rule(state.socialIsolation > 45, "Social isolation trend",
              (state.socialIsolation * WeightScale) \div 100)
      \o Rule(state.staffLoad > 60, "High staff workload",
              (state.staffLoad * WeightScale) \div 120)
      \o Rule(state.useWearables /\ state.heartRate > 100, "Elevated heart rate",
              (5 * WeightScale) \div 10)
      \o Rule(state.useWearables /\ state.spO2 < 93, "Low blood oxygen",
              (7 * WeightScale) \div 10)
      \o Rule(deviations.mobility * 10 > 15 * Scale,
              "Mobility below personal baseline", (55 * WeightScale) \div 100)
      \o Rule(deviations.restlessness * 10 > 15 * Scale,
              "Restlessness above personal baseline", (45 * WeightScale) \div 100)
      \o << [factor |-> "All signals within comfortable range",
             weight |-> WeightScale \div 10] >>

\* The checklist of buildExplanation, in evaluation order, with the default.
checklist(state, deviations, baseline) ==
  LET night == isNightHour(state.timeOfDay, baseline)
      fs ==
        Rule(state.mobility < 50, "Reduced mobility stability",
             ((100 - state.mobility) * WeightScale) \div 100)
        \o Rule(state.restlessness > 40, "Elevated restlessness",
                (state.restlessness * WeightScale) \div 100)
        \o Rule(night, "Nighttime hours", (6 * WeightScale) \div 10)
        \o Rule(state.speechDrift > 35, "Speech clarity change",
                (state.speechDrift * WeightScale) \div 100)
        \o Rule(state.socialIsolation > 45, "Social isolation trend",
                (state.socialIsolation * WeightScale) \div 100)
        \o Rule(state.staffLoad > 60, "High staff workload",
                (state.staffLoad * WeightScale) \div 120)
        \o Rule(state.useWearables /\ state.heartRate > 100, "Elevated heart rate",
                (5 * WeightScale) \div 10)
        \o Rule(state.useWearables /\ state.spO2 < 93, "Low blood oxygen",
                (7 * WeightScale) \div 10)
        \o Rule(deviations.mobility * 10 > 15 * Scale,
                "Mobility below personal baseline", (55 * WeightScale) \div 100)
        \o Rule(deviations.restlessness * 10 > 15 * Scale,
                "Restlessness above personal baseline", (45 * WeightScale) \div 100)
  IN  IF fs = << >>
      THEN << [factor |-> "All signals within comfortable range",
               weight |-> WeightScale \div 10] >>
      ELSE fs

buildExplanation(state, deviations, risks, baseline) ==
  LET sorted == sortByWeight(checklist(state, deviations, baseline))
      top3 == SubSeq(sorted, 1, Min(3, Len(sorted)))
      band == urgencyBand(risks.overall)
      names == [i \in DOMAIN top3 |-> top3[i].factor]
  IN  [topFactors |-> top3,
       narrative |->
         IF band = "Low" THEN [band |-> "Low", join |-> "", names |-> << >>]
         ELSE IF band = "Medium" THEN [band |-> "Medium", join |-> " and ", names |-> names]
         ELSE [band |-> "High", join |-> ", ", names |-> names]]

\* A message slot that holds no text.
Null == "null"

\* Math.round(x) of a score, as a whole number.
Round(x) == (x + Scale \div 2) \div Scale

\* `${hh}:${mm}` as the pair of its numbers; hours are whole in this model.
timeLabel(state) == << state.timeOfDay, 0 >>

\* Level 2: which resident prompt, and the values its text interpolates.
resMsg(risks, night) ==
  IF risks.loneliness > risks.fall
  THEN [text |-> "Martha would love to chat",
        slots |-> << IF night THEN "evening" ELSE "afternoon" >>]
  ELSE [text |-> "Take your time getting up", slots |-> << >>]

\* Variant: the fall reasoning needs a fall score above 70.
whyStaffAbove(risks, night) ==
  IF risks.fall > 70 * Scale
  THEN [text |-> "Soft alert: Fall risk elevated",
        slots |-> << Round(risks.fall), IF night THEN "nighttime" ELSE "daytime" >>]
  ELSE [text |-> "Soft alert: Combined risk moderate-high, staff load high",
        slots |-> << Round(risks.overall) >>]

\* Level 3: the reasoning of the staff message.
whyStaff(risks, night) ==
  IF risks.fall >= 70 * Scale
  THEN [text |-> "Soft alert: Fall risk elevated",
        slots |-> << Round(risks.fall), IF night THEN "nighttime" ELSE "daytime" >>]
  ELSE [text |-> "Soft alert: Combined risk moderate-high, staff load high",
        slots |-> << Round(risks.overall) >>]

\* Level 4: the reasoning of the staff message.
whyEscalate(state, risks) ==
  IF state.useWearables /\ state.spO2 < 90
  THEN [text |-> "PRIORITY: Vitals concern",
        slots |-> << state.spO2, state.heartRate >>]
  ELSE [text |-> "PRIORITY: Repeated high-risk pattern detected",
        slots |-> << Round(risks.fall), Round(risks.overall) >>]

\* Each text is named by its fixed wording; slots holds, in order, the values
\* the template literals interpolate into the resident and staff messages.
buildIntervention(level, state, risks, night) ==
  CASE level = 1 ->
         [level |-> 1, levelLabel |-> "Ambient Cue",
          residentMessage |-> Null, staffMessage |-> Null,
          environmentalCue |->
            IF night THEN "Soft warm floor-path lighting" ELSE "Comfortable daytime level",
          slots |-> << >>]
    [] level = 2 ->
         [level |-> 2, levelLabel |-> "Gentle Prompt",
          residentMessage |-> resMsg(risks, night).text,
          staffMessage |-> Null,
          environmentalCue |->
            IF night THEN "Path lighting brightened" ELSE "Warmer tones",
          slots |-> resMsg(risks, night).slots]
    [] level = 3 ->
         [level |-> 3, levelLabel |-> "Staff Soft Alert",
          residentMessage |-> "Someone will pop by shortly",
          staffMessage |-> whyStaff(risks, night).text,
          environmentalCue |-> "Calm, reassuring level",
          slots |-> timeLabel(state) \o whyStaff(risks, night).slots]
    [] OTHER ->
         [level |-> 4, levelLabel |-> "Escalate",
          residentMessage |-> "Help is on the way",
          staffMessage |-> whyEscalate(state, risks).text,
          environmentalCue |-> "Room lights fully on",
          slots |-> timeLabel(state) \o whyEscalate(state, risks).slots]

\* Variant: the repeated-high override needs a High overall band as well.
selectLevelNeedsHigh(state, risks, recentHighCount) ==
  LET night == isNightHour(state.timeOfDay, DEFAULT_BASELINE)
      fallBand == urgencyBand(risks.fall)
      cognitiveBand == urgencyBand(risks.cognitive)
      lonelinessBand == urgencyBand(risks.loneliness)
      overallBand == urgencyBand(risks.overall)
      vitalsAbnormal == state.useWearables /\ (state.heartRate > 120 \/ state.spO2 < 90)
  IN  IF overallBand = "High" /\ (vitalsAbnormal \/ recentHighCount >= 3) THEN 4
      ELSE IF fallBand = "High" \/ (overallBand = "Medium" /\ state.staffLoad > 65) THEN 3
      ELSE IF \/ fallBand = "Medium"
              \/ lonelinessBand = "Medium" \/ lonelinessBand = "High"
              \/ cognitiveBand = "Medium"
      THEN 2
      ELSE 1

\* Variant: the staff-load threshold of the level-3 rule is inclusive.
selectLevelStaffInclusive(state, risks, recentHighCount) ==
  LET fallBand == urgencyBand(risks.fall)
      cognitiveBand == urgencyBand(risks.cognitive)
      lonelinessBand == urgencyBand(risks.loneliness)
      overallBand == urgencyBand(risks.overall)
      vitalsAbnormal == state.useWearables /\ (state.heartRate > 120 \/ state.spO2 < 90)
  IN  IF (overallBand = "High" /\ vitalsAbnormal) \/ recentHighCount >= 3 THEN 4
      ELSE IF fallBand = "High" \/ (overallBand = "Medium" /\ state.staffLoad >= 65) THEN 3
      ELSE IF \/ fallBand = "Medium"
              \/ lonelinessBand = "Medium" \/ lonelinessBand = "High"
              \/ cognitiveBand = "Medium"
      THEN 2
      ELSE 1

\* Variant: the level-2 rule treats cognitive like loneliness (Medium or High).
selectLevelCognitiveHigh(state, risks, recentHighCount) ==
  LET fallBand == urgencyBand(risks.fall)
      cognitiveBand == urgencyBand(risks.cognitive)
      lonelinessBand == urgencyBand(risks.loneliness)
      overallBand == urgencyBand(risks.overall)
      vitalsAbnormal == state.useWearables /\ (state.heartRate > 120 \/ state.spO2 < 90)
  IN  IF (overallBand = "High" /\ vitalsAbnormal) \/ recentHighCount >= 3 THEN 4
      ELSE IF fallBand = "High" \/ (overallBand = "Medium" /\ state.staffLoad > 65) THEN 3
      ELSE IF \/ fallBand = "Medium"
              \/ lonelinessBand = "Medium" \/ lonelinessBand = "High"
              \/ cognitiveBand = "Medium" \/ cognitiveBand = "High"
      THEN 2
      ELSE 1

\* Variant: the level-2 rule treats loneliness like cognitive (Medium only).
selectLevelLonelinessMedium(state, risks, recentHighCount) ==
  LET fallBand == urgencyBand(risks.fall)
      cognitiveBand == urgencyBand(risks.cognitive)
      lonelinessBand == urgencyBand(risks.loneliness)
      overallBand == urgencyBand(risks.overall)
      vitalsAbnormal == state.useWearables /\ (state.heartRate > 120 \/ state.spO2 < 90)
  IN  IF (overallBand = "High" /\ vitalsAbnormal) \/ recentHighCount >= 3 THEN 4
      ELSE IF fallBand = "High" \/ (overallBand = "Medium" /\ state.staffLoad > 65) THEN 3
      ELSE IF \/ fallBand = "Medium"
              \/ lonelinessBand = "Medium"
              \/ cognitiveBand = "Medium"
      THEN 2
      ELSE 1

\* The decision ladder of selectIntervention.
selectLevel(state, risks, recentHighCount) ==
  LET night == isNightHour(state.timeOfDay, DEFAULT_BASELINE)
      fallBand == urgencyBand(risks.fall)
      cognitiveBand == urgencyBand(risks.cognitive)
      lonelinessBand == urgencyBand(risks.loneliness)
      overallBand == urgencyBand(risks.overall)
      vitalsAbnormal == state.useWearables /\ (state.heartRate > 120 \/ state.spO2 < 90)
  IN  IF (overallBand = "High" /\ vitalsAbnormal) \/ recentHighCount >= 3 THEN 4
      ELSE IF fallBand = "High" \/ (overallBand = "Medium" /\ state.staffLoad > 65) THEN 3
      ELSE IF \/ fallBand = "Medium"
              \/ lonelinessBand = "Medium" \/ lonelinessBand = "High"
              \/ cognitiveBand = "Medium"
      THEN 2
      ELSE IF night /\ (fallBand = "Low" \/ fallBand = "Medium") THEN 1
      ELSE 1

\* Variant: the templates are built for daytime whatever the hour.
selectInterventionDaytime(state, risks, recentHighCount) ==
  buildIntervention(selectLevel(state, risks, recentHighCount), state, risks, FALSE)

selectIntervention(state, risks, recentHighCount) ==
  buildIntervention(selectLevel(state, risks, recentHighCount), state, risks,
                    isNightHour(state.timeOfDay, DEFAULT_BASELINE))

\* ------------------------------------------------------------ controller

VARIABLES
  timerId,        \* 0 (null) or the request whose timeout the handle names
  abortCtrl,      \* 0 (null) or the execute() invocation whose AbortController it holds
  currentStatus,  \* "idle" | "generating" | "error"
  calls,          \* completed-call counter
  timers,         \* runtime: requests whose timeout is still scheduled
  reqs,           \* request()/forceRequest() invocations made so far
  execs,          \* execute() invocations: network calls issued so far
  log             \* callback invocations, in order

ctlVars == <<timerId, abortCtrl, currentStatus, calls, timers, reqs, execs, log>>

\* Harness of the pure functions: the arguments of one call and its result.
VARIABLES
  pin,            \* arguments: [state, risks, recentHighCount]
  pout            \* [fn, val]: the function applied and what it returned

pureVars == <<pin, pout>>

\* The page (main.ts): its module-level variables, the position of the
\* simulation loop, and what the intervention and explanation panels show.
VARIABLES
  state,            \* CurrentState
  recentHighCount,
  timelineEvents,
  llmConfig,        \* [enabled, apiKey]; apiKey is TRUE when non-empty
  lastLLMMessages,  \* NoMessages (null) or the last delivered messages
  simRunning,
  simLoop,          \* 0: no runSimulation() is suspended; i > 0: one sleeps
                    \* after its iteration i - 1
  simState,         \* simulate24h(): its local state after that iteration
  simRecentHighCount, \* simulate24h(): its local recentHighCount after it
  snapIntervention, \* the intervention in that iteration's snapshot
  lastIntervention,
  lastExplanation,
  lastRisks,
  prevSignature,
  rendered          \* the two message panels as last written

appVars ==
  <<state, recentHighCount, timelineEvents, llmConfig, lastLLMMessages, simRunning,
    simLoop, simState, simRecentHighCount, snapIntervention, lastIntervention,
    lastExplanation, lastRisks, prevSignature, rendered>>

vars == <<ctlVars, pureVars, appVars>>

\* createLLMController(): the controller right after construction.
CtlInit ==
  /\ timerId = 0
  /\ abortCtrl = 0
  /\ currentStatus = "idle"
  /\ calls = 0
  /\ timers = {}
  /\ reqs = <<>>
  /\ execs = <<>>
  /\ log = <<>>

\* Variant: the handle is dropped without clearTimeout.
clearTimerLeaks(ts) == ts

\* clearTimeout(timerId); timerId = null  -- the runtime's timer set afterwards
clearTimer(ts) == IF timerId # 0 THEN ts \ {timerId} ELSE ts

\* Variant: the handle is dropped without abort().
abortInflightKeeps(ex) == ex

\* abortCtrl.abort(); abortCtrl = null    -- the signals afterwards
abortInflight(ex) ==
  IF abortCtrl # 0 THEN [ex EXCEPT ![abortCtrl].aborted = TRUE] ELSE ex

\* A request still waiting for its timeout when another API call arrives is
\* marked with the kind of that call.
Overtake(rs, by) ==
  [i \in DOMAIN rs |->
     IF i \in timers /\ rs[i].over = "none" THEN [rs[i] EXCEPT !.over = by] ELSE rs[i]]

NewReq(k) == [kind |-> k, over |-> "none", stopped |-> FALSE]

\* Variant: execute() does not abort its predecessor.
executeKeepsPredecessor(r) ==
  /\ execs' = Append(execs, [req |-> r, aborted |-> FALSE, outcome |-> "pending"])
  /\ abortCtrl' = Len(execs) + 1
  /\ currentStatus' = "generating"
  /\ UNCHANGED <<calls, log>>

\* execute(), up to its await: abort the predecessor, create a fresh
\* AbortController, go to 'generating', start the fetch.
execute(r) ==
  /\ execs' = Append(abortInflight(execs),
                     [req |-> r, aborted |-> FALSE, outcome |-> "pending"])
  /\ abortCtrl' = Len(execs) + 1
  /\ currentStatus' = "generating"
  /\ UNCHANGED <<calls, log>>

\* Variant: request() reports 'generating' as soon as it is called.
requestSetsGenerating ==
  /\ Len(reqs) < MaxRequests
  /\ reqs' = Append(Overtake(reqs, "request"), NewReq("request"))
  /\ timers' = clearTimer(timers) \cup {Len(reqs) + 1}
  /\ timerId' = Len(reqs) + 1
  /\ currentStatus' = "generating"
  /\ UNCHANGED <<abortCtrl, calls, execs, log>>

request ==
  /\ Len(reqs) < MaxRequests
  /\ reqs' = Append(Overtake(reqs, "request"), NewReq("request"))
  /\ timers' = clearTimer(timers) \cup {Len(reqs) + 1}
  /\ timerId' = Len(reqs) + 1
  /\ UNCHANGED <<abortCtrl, currentStatus, calls, execs, log>>

\* The setTimeout callback of request r.
timerFires(r) ==
  /\ r \in timers
  /\ timers' = timers \ {r}
  /\ timerId' = 0
  /\ execute(r)
  /\ UNCHANGED reqs

\* Variant: forceRequest() leaves a pending timer alone.
forceRequestKeepsTimer ==
  /\ Len(reqs) < MaxRequests
  /\ reqs' = Append(reqs, NewReq("force"))
  /\ UNCHANGED <<timers, timerId>>
  /\ execute(Len(reqs) + 1)

forceRequest ==
  /\ Len(reqs) < MaxRequests
  /\ reqs' = Append(Overtake(reqs, "force"), NewReq("force"))
  /\ timers' = clearTimer(timers)
  /\ timerId' = 0
  /\ execute(Len(reqs) + 1)

\* Variant: stopAll() clears the timer but leaves the in-flight call alone.
stopAllKeepsInflight ==
  /\ timers' = clearTimer(timers)
  /\ timerId' = 0
  /\ currentStatus' = "idle"
  /\ reqs' = [i \in DOMAIN reqs |->
                [Overtake(reqs, "stop")[i] EXCEPT !.stopped = TRUE]]
  /\ UNCHANGED <<abortCtrl, execs, calls, log>>

\* Variant: stopAll() also resets the call counter.
stopAllResetsCalls ==
  /\ timers' = clearTimer(timers)
  /\ timerId' = 0
  /\ execs' = abortInflight(execs)
  /\ abortCtrl' = 0
  /\ currentStatus' = "idle"
  /\ calls' = 0
  /\ reqs' = [i \in DOMAIN reqs |->
                [Overtake(reqs, "stop")[i] EXCEPT !.stopped = TRUE]]
  /\ UNCHANGED log

stopAll ==
  /\ timers' = clearTimer(timers)
  /\ timerId' = 0
  /\ execs' = abortInflight(execs)
  /\ abortCtrl' = 0
  /\ currentStatus' = "idle"
  /\ reqs' = [i \in DOMAIN reqs |->
                [Overtake(reqs, "stop")[i] EXCEPT !.stopped = TRUE]]
  /\ UNCHANGED <<calls, log>>

\* What the fetch of a call can produce: anything while the signal is
\* intact; once it is aborted the call may still complete (cooperative
\* cancellation) or reject with an AbortError.
Settlements(c) ==
  IF execs[c].aborted THEN Responses \cup {Reject("AbortError")} ELSE Responses

\* Variant: the continuation does not look at signal.aborted.
settledIgnoresAbort(c, resp) ==
  LET res == generateLLMMessages(resp)
  IN  /\ execs' = [execs EXCEPT ![c].outcome = Wire(resp)]
      /\ IF res.ok
         THEN /\ calls' = calls + 1
              /\ currentStatus' = "idle"
              /\ log' = Append(log, [cb |-> "onResult", call |-> c, msgs |-> res.msgs])
         ELSE IF res.name = "AbortError"
         THEN UNCHANGED <<calls, currentStatus, log>>
         ELSE /\ currentStatus' = "error"
              /\ log' = Append(log, [cb |-> "onError", call |-> c, msgs |-> NoMsgs])
              /\ UNCHANGED calls

\* Variant: the catch block swallows every error, not only aborts.
settledSwallowsErrors(c, resp) ==
  LET res == generateLLMMessages(resp)
      signalAborted == execs[c].aborted
  IN  /\ execs' = [execs EXCEPT ![c].outcome = Wire(resp)]
      /\ IF res.ok /\ ~signalAborted
         THEN /\ calls' = calls + 1
              /\ currentStatus' = "idle"
              /\ log' = Append(log, [cb |-> "onResult", call |-> c, msgs |-> res.msgs])
         ELSE UNCHANGED <<calls, currentStatus, log>>

\* execute(), from its await to its end, for call c whose fetch produced resp.
settled(c, resp) ==
  LET res == generateLLMMessages(resp)
      signalAborted == execs[c].aborted
  IN  IF res.ok
      THEN /\ execs' = [execs EXCEPT ![c].outcome = Wire(resp)]
           /\ IF ~signalAborted
              THEN /\ calls' = calls + 1
                   /\ currentStatus' = "idle"
                   /\ log' = Append(log, [cb |-> "onResult", call |-> c, msgs |-> res.msgs])
              ELSE UNCHANGED <<calls, currentStatus, log>>
      ELSE /\ execs' = [execs EXCEPT ![c].outcome = Wire(resp)]
           /\ IF res.name = "AbortError" \/ signalAborted
              THEN UNCHANGED <<calls, currentStatus, log>>
              ELSE /\ currentStatus' = "error"
                   /\ log' = Append(log, [cb |-> "onError", call |-> c, msgs |-> NoMsgs])
                   /\ UNCHANGED calls

settles(c) ==
  /\ c \in DOMAIN execs
  /\ execs[c].outcome = "pending"
  /\ \E resp \in Settlements(c) : settled(c, resp)
  /\ UNCHANGED <<timerId, abortCtrl, timers, reqs>>

\* The pure-function harness at rest.
NoCall == [fn |-> "none", val |-> 0]

PureParked == pin = 0 /\ pout = NoCall

\* ----------------------------------------------------------------- page

\* Caps on the request()/forceRequest() invocations made through the page:
\* with a fixed configuration, with configuration changes, and with the
\* simulation.
MaxAppRequests == 2
MaxConfigRequests == 1
MaxSimRequests == 1

\* Hours simulate24h() produces (24 in the source).
SimHours == 3

isLLMAvailable(config) == config.enabled /\ config.apiKey

\* lastLLMMessages = null
NoMessages == [none |-> TRUE]

\* prevSignature = ''
NoSignature == [level |-> 0, urgency |-> "", top2 |-> << >>, lastEventKey |-> << >>]

\* The first lines of update(): deviations, risks, intervention, explanation.
evaluation(st, rhc) ==
  LET devs == computeDeviations(DEFAULT_BASELINE, st)
      risks == computeRisks(st, devs, DEFAULT_BASELINE)
  IN  [risks |-> risks,
       intervention |-> selectIntervention(st, risks, rhc),
       explanation |-> buildExplanation(st, devs, risks, DEFAULT_BASELINE)]

\* buildLLMContext() for page state st.  An optional property is the empty
\* sequence when undefined and << v >> when it holds v.
buildLLMContext(st, risks, interventionLevel, topFactors) ==
  [residentProfile |->
     [age |-> 82, name |-> "Eleanor", mobilityBaseline |-> DEFAULT_BASELINE.mobilityMean,
      cognitiveConcernLevel |-> urgencyBand(risks.cognitive)],
   riskScores |-> risks,
   timeOfDay |-> st.timeOfDay,
   interventionLevel |-> interventionLevel,
   topContributingFactors |-> topFactors,
   staffLoad |-> st.staffLoad,
   useWearables |-> st.useWearables,
   heartRate |-> IF st.useWearables THEN << st.heartRate >> ELSE << >>,
   spO2 |-> IF st.useWearables THEN << st.spO2 >> ELSE << >>]

\* `${level}|${urgency}|${top2}|${lastEventKey}` as the tuple of its parts.
computeContextSignature(intervention, risks, explanation, events) ==
  LET tf == explanation.topFactors
      significant == {i \in DOMAIN events : events[i].urgency # "Low"}
      lastSig == CHOOSE i \in significant : \A j \in significant : j <= i
  IN  [level |-> intervention.level,
       urgency |-> urgencyBand(risks.overall),
       top2 |-> [i \in 1..Min(2, Len(tf)) |-> tf[i].factor],
       lastEventKey |->
         IF significant = {} THEN << "none" >>
         ELSE << events[lastSig].label, events[lastSig].urgency >>]

\* One optional event of generateEvents.
Event(cond, hour, label, urgency) ==
  IF cond THEN << [time |-> hour, label |-> label, urgency |-> urgency] >> ELSE << >>

generateEvents(hour, st, risks, night) ==
  Event(night /\ st.restlessness > 55, hour, "Bed exit detected", urgencyBand(risks.fall))
  \o Event(night /\ st.restlessness > 65 /\ st.mobility < 45, hour, "Wandering pattern",
           urgencyBand(risks.cognitive))
  \o Event(risks.fall > 70 * Scale, hour, "Fall risk elevated", "High")
  \o Event(risks.loneliness > 60 * Scale /\ ~night, hour, "Isolation noted",
           urgencyBand(risks.loneliness))
  \o Event(risks.overall < 25 * Scale, hour, "Comfortable period", "Low")
  \o Event(st.useWearables /\ st.spO2 < 91, hour, "SpO2 low", "High")

\* What renderIntervention(enriched) and renderExplanation(explanation,
\* enriched) write, with enriched built as update() and
\* rerenderMessagePanels() build it: the source badge, where each text comes
\* from, and whether enrichment was available when the panels were written.
panels(intervention, explanation, msgs, config) ==
  LET source == IF msgs # NoMessages /\ isLLMAvailable(config) THEN "llm" ELSE "template"
      llmExplanation == msgs # NoMessages
  IN  [avail |-> isLLMAvailable(config),
       level |-> intervention.level,
       source |-> source,
       resident |-> IF source = "llm" /\ msgs.residentMessage.t # "null"
                    THEN "llm" ELSE "template",
       staff |-> IF source = "llm" /\ msgs.staffMessage.t # "null"
                 THEN "llm" ELSE "template",
       narrative |-> IF llmExplanation THEN "llm" ELSE "template",
       error |-> FALSE]

\* stopLLMWork() followed, in the same handler, by llm.request().
stopAllThenRequest ==
  /\ Len(reqs) < MaxRequests
  /\ reqs' = Append([i \in DOMAIN reqs |->
                       [Overtake(reqs, "stop")[i] EXCEPT !.stopped = TRUE]],
                    NewReq("request"))
  /\ timers' = clearTimer(timers) \cup {Len(reqs) + 1}
  /\ timerId' = Len(reqs) + 1
  /\ execs' = abortInflight(execs)
  /\ abortCtrl' = 0
  /\ currentStatus' = "idle"
  /\ UNCHANGED <<calls, log>>

\* What the gate of maybeRequestLLM() decides.
gate(intervention, sig, config, sim, stored) ==
  IF sim THEN "skip"
  ELSE IF ~isLLMAvailable(config) THEN "skip"
  ELSE IF intervention.level < 2 THEN "stop"
  ELSE IF sig = stored THEN "skip"
  ELSE "request"

\* Variant: the gate does not compare signatures.
maybeRequestLLMUngated(intervention, risks, explanation, events, config, msgs, sim, stored, stopped) ==
  \E sig \in {computeContextSignature(intervention, risks, explanation, events)} :
  \E decision \in {IF gate(intervention, sig, config, sim, stored) = "skip"
                       /\ ~sim /\ isLLMAvailable(config)
                    THEN "request"
                    ELSE gate(intervention, sig, config, sim, stored)} :
      /\ lastLLMMessages' = IF decision = "stop" THEN NoMessages ELSE msgs
      /\ prevSignature' = IF decision = "request" THEN sig ELSE stored
      /\ IF decision = "request"
         THEN IF stopped THEN stopAllThenRequest ELSE request
         ELSE IF decision = "stop" \/ stopped THEN stopAll
         ELSE UNCHANGED ctlVars

\* Variant: level 1 only skips the request.
maybeRequestLLMLevel1Skips(intervention, risks, explanation, events, config, msgs, sim, stored, stopped) ==
  \E sig \in {computeContextSignature(intervention, risks, explanation, events)} :
  \E decision \in {IF gate(intervention, sig, config, sim, stored) = "stop"
                    THEN "skip"
                    ELSE gate(intervention, sig, config, sim, stored)} :
      /\ lastLLMMessages' = msgs
      /\ prevSignature' = IF decision = "request" THEN sig ELSE stored
      /\ IF decision = "request"
         THEN IF stopped THEN stopAllThenRequest ELSE request
         ELSE IF stopped THEN stopAll
         ELSE UNCHANGED ctlVars

\* maybeRequestLLM(), called at the end of update().  The signature and the
\* decision are bound as values (\E over a singleton).  msgs, sim and stored
\* are lastLLMMessages, simRunning and prevSignature as the handler has left
\* them; stopped tells that the handler has already called stopLLMWork().
maybeRequestLLM(intervention, risks, explanation, events, config, msgs, sim, stored, stopped) ==
  \E sig \in {computeContextSignature(intervention, risks, explanation, events)} :
  \E decision \in {gate(intervention, sig, config, sim, stored)} :
      /\ lastLLMMessages' = IF decision = "stop" THEN NoMessages ELSE msgs
      /\ prevSignature' = IF decision = "request" THEN sig ELSE stored
      /\ IF decision = "request"
         THEN IF stopped THEN stopAllThenRequest ELSE request
         ELSE IF decision = "stop" \/ stopped THEN stopAll
         ELSE UNCHANGED ctlVars

\* update(), with the values the handler has assigned before calling it.
\* Each const of the source is bound once, as a value.
update(st, rhc, events, config, msgs, sim, stored, stopped) ==
  \E devs \in {computeDeviations(DEFAULT_BASELINE, st)} :
  \E risks \in {computeRisks(st, devs, DEFAULT_BASELINE)} :
  \E intervention \in {selectIntervention(st, risks, rhc)} :
  \E explanation \in {buildExplanation(st, devs, risks, DEFAULT_BASELINE)} :
      /\ lastIntervention' = intervention
      /\ lastExplanation' = explanation
      /\ lastRisks' = risks
      /\ rendered' = panels(intervention, explanation, msgs, config)
      /\ maybeRequestLLM(intervention, risks, explanation, events, config, msgs, sim,
                         stored, stopped)

\* Slider positions the user moves to.
SliderInputs ==
  { <<"mobility", 30>>, <<"mobility", 70>>,
    <<"socialIsolation", 30>>, <<"socialIsolation", 80>> }

\* bindSlider(): the 'input' listener of one slider, moved to position in.
sliderInputTo(in) ==
  /\ state[in[1]] # in[2]
  /\ state' = [state EXCEPT ![in[1]] = in[2]]
  /\ update(state', recentHighCount, timelineEvents, llmConfig, lastLLMMessages,
            simRunning, prevSignature, FALSE)
  /\ UNCHANGED <<recentHighCount, timelineEvents, llmConfig, simRunning, simLoop,
                 simState, simRecentHighCount, snapIntervention, pureVars>>

sliderInput == \E in \in SliderInputs : sliderInputTo(in)

\* Slider positions that take the overall score into the High band.
HighInputs ==
  { <<"mobility", 0>>, <<"mobility", 70>>,
    <<"speechDrift", 20>>, <<"speechDrift", 100>>,
    <<"socialIsolation", 30>>, <<"socialIsolation", 100>> }

sliderInputHigh == \E in \in HighInputs : sliderInputTo(in)

\* The 'change' listener of the LLM toggle.
llmToggleChange ==
  /\ llmConfig' = [llmConfig EXCEPT !.enabled = ~llmConfig.enabled]
  /\ IF ~llmConfig'.enabled
     THEN update(state, recentHighCount, timelineEvents, llmConfig', NoMessages,
                 simRunning, prevSignature, TRUE)
     ELSE update(state, recentHighCount, timelineEvents, llmConfig', lastLLMMessages,
                 simRunning, prevSignature, FALSE)
  /\ UNCHANGED <<state, recentHighCount, timelineEvents, simRunning, simLoop, simState, simRecentHighCount, snapIntervention,
                 pureVars>>

\* The 'change' listener of the API key field: the trimmed value is stored
\* and the badges are refreshed; nothing else.
apiKeyChange ==
  /\ llmConfig' = [llmConfig EXCEPT !.apiKey = ~llmConfig.apiKey]
  /\ UNCHANGED <<state, recentHighCount, timelineEvents, lastLLMMessages, simRunning,
                 simLoop, simState,
                 simRecentHighCount, snapIntervention, lastIntervention, lastExplanation, lastRisks,
                 prevSignature, rendered, ctlVars, pureVars>>

\* Variant: a forced refresh keeps the stored signature.
forceRefreshLLMKeepsSignature ==
  /\ isLLMAvailable(llmConfig)
  /\ lastIntervention.level >= 2
  /\ UNCHANGED prevSignature
  /\ forceRequest
  /\ UNCHANGED <<state, recentHighCount, timelineEvents, llmConfig, lastLLMMessages,
                 simRunning, simLoop, simState,
                 simRecentHighCount, snapIntervention, lastIntervention, lastExplanation,
                 lastRisks, rendered, pureVars>>

\* forceRefreshLLM(), the refresh button's handler, when it gets past its
\* early returns.
forceRefreshLLM ==
  /\ isLLMAvailable(llmConfig)
  /\ lastIntervention.level >= 2
  /\ prevSignature' = NoSignature
  /\ forceRequest
  /\ UNCHANGED <<state, recentHighCount, timelineEvents, llmConfig, lastLLMMessages,
                 simRunning, simLoop, simState,
                 simRecentHighCount, snapIntervention, lastIntervention, lastExplanation,
                 lastRisks, rendered, pureVars>>

\* The 'change' listener of the wearables toggle.
wearToggleChange ==
  /\ state' = [state EXCEPT !.useWearables = ~state.useWearables]
  /\ update(state', recentHighCount, timelineEvents, llmConfig, lastLLMMessages,
            simRunning, prevSignature, FALSE)
  /\ UNCHANGED <<recentHighCount, timelineEvents, llmConfig, simRunning, simLoop,
                 simState, simRecentHighCount, snapIntervention, pureVars>>

\* randWalk() for a drawn delta.
randWalk(current, lo, hi, delta) == Max(lo, Min(hi, current + delta))

\* Math.max(lo, Math.min(hi, v))
clip(v, lo, hi) == Max(lo, Min(hi, v))

\* What Math.random() yields in one hour of simulate24h(): the delta of each
\* random walk, and the night and day patterns (restlessness += 12 or -3,
\* mobility -= 8 or 0, socialIsolation -= 5 or -3).  In the draw below the
\* restlessness walk cancels the night pattern.
Draws ==
  { [mobility |-> 0, restlessness |-> 3, speechDrift |-> 0, socialIsolation |-> 0,
     heartRate |-> 0, spO2 |-> 0,
     nightRestlessness |-> -3, nightMobility |-> 0, daySocial |-> -3] }

\* One hour of simulate24h(): the states it can produce for hour h from its
\* local state s.
simulate24hHour(s, h) ==
  LET night == isNightHour(h, DEFAULT_BASELINE)
  IN  { [s EXCEPT
           !.timeOfDay = h,
           !.mobility = clip(randWalk(s.mobility, 15, 95, d.mobility)
                             - (IF night THEN d.nightMobility ELSE 0), 0, 100),
           !.restlessness = clip(randWalk(s.restlessness, 5, 90, d.restlessness)
                                 + (IF night THEN d.nightRestlessness ELSE 0), 0, 100),
           !.speechDrift = clip(randWalk(s.speechDrift, 5, 85, d.speechDrift), 0, 100),
           !.socialIsolation = clip(randWalk(s.socialIsolation, 10, 90, d.socialIsolation)
                                    - (IF night THEN 0 ELSE d.daySocial), 0, 100),
           !.heartRate = IF s.useWearables
                         THEN clip(randWalk(s.heartRate, 50, 130, d.heartRate), 40, 140)
                         ELSE s.heartRate,
           !.spO2 = IF s.useWearables
                    THEN clip(randWalk(s.spO2, 88, 100, d.spO2), 85, 100)
                    ELSE s.spO2] :
        d \in Draws }

\* What simulate24h() does in one hour after drifting its state to snap, with
\* its local recentHighCount at count: the intervention is selected with the
\* count as it stands, and the count is maintained afterwards.
simulate24hSnapshot(snap, count) ==
  LET risks == computeRisks(snap, computeDeviations(DEFAULT_BASELINE, snap),
                            DEFAULT_BASELINE)
  IN  /\ snapIntervention' = selectIntervention(snap, risks, count)
      /\ simRecentHighCount' = IF urgencyBand(risks.overall) = "High" THEN count + 1
                               ELSE Max(0, count - 1)

\* One iteration of the loop of runSimulation() for snapshot state snap of
\* hour h, up to its sleep.
simIteration(snap, h, events, rhc, msgs, sim, stored, stopped) ==
  \E devs \in {computeDeviations(DEFAULT_BASELINE, snap)} :
  \E risks \in {computeRisks(snap, devs, DEFAULT_BASELINE)} :
  \E evs \in {events \o generateEvents(h, snap, risks,
                                        isNightHour(h, DEFAULT_BASELINE))} :
  \E high \in {IF urgencyBand(risks.overall) = "High" THEN rhc + 1
                ELSE Max(0, rhc - 1)} :
      /\ state' = snap
      /\ simState' = snap
      /\ timelineEvents' = evs
      /\ recentHighCount' = high
      /\ update(snap, high, evs, llmConfig, msgs, sim, stored, stopped)

\* runSimulation(), the Simulate button's handler, up to its first sleep.
\* The button is disabled while a run is suspended.
runSimulation ==
  /\ simLoop = 0
  /\ simRunning' = TRUE
  /\ simLoop' = 1
  /\ \E snap \in simulate24hHour(state, 0) :
       /\ simulate24hSnapshot(snap, 0)
       /\ simIteration(snap, 0, << >>, 0, NoMessages, TRUE, NoSignature, TRUE)
  /\ UNCHANGED <<llmConfig, pureVars>>

\* runSimulation() resumes after a sleep and runs its next iteration.
simStep ==
  /\ simLoop > 0
  /\ simLoop < SimHours
  /\ simLoop' = simLoop + 1
  /\ \E snap \in simulate24hHour(simState, simLoop) :
       /\ simulate24hSnapshot(snap, simRecentHighCount)
       /\ simIteration(snap, simLoop, timelineEvents, recentHighCount, lastLLMMessages,
                       simRunning, prevSignature, FALSE)
  /\ UNCHANGED <<llmConfig, simRunning, pureVars>>

\* runSimulation() resumes after its last sleep: unlock and update once.
simFinish ==
  /\ simLoop > 0
  /\ simLoop >= SimHours
  /\ simLoop' = 0
  /\ simRunning' = FALSE
  /\ update(state, recentHighCount, timelineEvents, llmConfig, lastLLMMessages,
            FALSE, prevSignature, FALSE)
  /\ UNCHANGED <<state, recentHighCount, timelineEvents, llmConfig, simState,
                 simRecentHighCount, snapIntervention, pureVars>>

\* resetAll(), the Reset button's handler.
resetAll ==
  /\ state' = defaultState
  /\ recentHighCount' = 0
  /\ timelineEvents' = << >>
  /\ simRunning' = FALSE
  /\ update(defaultState, 0, << >>, llmConfig, NoMessages, FALSE, NoSignature, TRUE)
  /\ UNCHANGED <<llmConfig, simLoop, simState, simRecentHighCount, snapIntervention, pureVars>>

\* randomize(), the Randomize button's handler.  Mobility and isolation are
\* drawn from the slider positions above; the other draws have the default
\* values, which lie in their ranges.
randomize ==
  /\ \E in1, in2 \in SliderInputs :
       /\ in1[1] = "mobility"
       /\ in2[1] = "socialIsolation"
       /\ state' = [defaultState EXCEPT
                      !.mobility = in1[2],
                      !.socialIsolation = in2[2],
                      !.useWearables = state.useWearables,
                      !.heartRate = IF state.useWearables THEN @ ELSE state.heartRate,
                      !.spO2 = IF state.useWearables THEN @ ELSE state.spO2]
  /\ update(state', recentHighCount, timelineEvents, llmConfig, NoMessages, simRunning,
            NoSignature, FALSE)
  /\ UNCHANGED <<recentHighCount, timelineEvents, llmConfig, simRunning, simLoop,
                 simState, simRecentHighCount, snapIntervention, pureVars>>

\* The debounce timeout of request r fires.
appTimerFires(r) ==
  /\ timerFires(r)
  /\ UNCHANGED <<appVars, pureVars>>

\* What the service answers to the page's calls.
AppResponses ==
  { Reject("TypeError"), Http(TRUE, Content("object", Str(40), NonString, Str(120))) }

handleLLMResult(msgs) ==
  /\ lastLLMMessages' = msgs
  /\ rendered' = panels(lastIntervention, lastExplanation, msgs, llmConfig)

\* Variant: an error discards the cached messages.
handleLLMErrorClears ==
  /\ lastLLMMessages' = NoMessages
  /\ rendered' = [rendered EXCEPT !.error = TRUE]

handleLLMError ==
  /\ UNCHANGED lastLLMMessages
  /\ rendered' = [rendered EXCEPT !.error = TRUE]

\* Variant: the result handler ends by running the gate, as update() does.
appSettlesRunsGate(c) ==
  /\ c \in DOMAIN execs
  /\ execs[c].outcome = "pending"
  /\ \E resp \in AppResponses \cup
                 (IF execs[c].aborted THEN {Reject("AbortError")} ELSE {}) :
       settled(c, resp)
  /\ IF Len(log') = Len(log)
     THEN UNCHANGED <<lastLLMMessages, rendered, timerId, timers, reqs, prevSignature>>
     ELSE IF log'[Len(log')].cb = "onResult"
     THEN /\ handleLLMResult(log'[Len(log')].msgs)
          /\ \E sig \in {computeContextSignature(lastIntervention, lastRisks,
                                                  lastExplanation, timelineEvents)} :
               IF gate(lastIntervention, sig, llmConfig, simRunning, prevSignature)
                    = "request"
               THEN /\ prevSignature' = sig
                    /\ reqs' = Append(Overtake(reqs, "request"), NewReq("request"))
                    /\ timers' = clearTimer(timers) \cup {Len(reqs) + 1}
                    /\ timerId' = Len(reqs) + 1
               ELSE UNCHANGED <<timerId, timers, reqs, prevSignature>>
     ELSE /\ handleLLMError
          /\ UNCHANGED <<timerId, timers, reqs, prevSignature>>
  /\ UNCHANGED abortCtrl
  /\ UNCHANGED <<state, recentHighCount, timelineEvents, llmConfig, simRunning, simLoop,
                 simState,
                 simRecentHighCount, snapIntervention, lastIntervention, lastExplanation, lastRisks, pureVars>>

\* The awaited fetch of call c settles and execute() runs to its end,
\* invoking the page's handler if it reports.
appSettles(c) ==
  /\ c \in DOMAIN execs
  /\ execs[c].outcome = "pending"
  /\ \E resp \in AppResponses \cup
                 (IF execs[c].aborted THEN {Reject("AbortError")} ELSE {}) :
       settled(c, resp)
  /\ IF Len(log') = Len(log) THEN UNCHANGED <<lastLLMMessages, rendered>>
     ELSE IF log'[Len(log')].cb = "onResult" THEN handleLLMResult(log'[Len(log')].msgs)
     ELSE handleLLMError
  /\ UNCHANGED <<timerId, abortCtrl, timers, reqs>>
  /\ UNCHANGED <<state, recentHighCount, timelineEvents, llmConfig, simRunning, simLoop,
                 simState,
                 simRecentHighCount, snapIntervention, lastIntervention, lastExplanation, lastRisks, prevSignature,
                 pureVars>>

\* The page before it is loaded.
AppParked ==
  /\ state = defaultState
  /\ recentHighCount = 0
  /\ timelineEvents = << >>
  /\ llmConfig = [enabled |-> FALSE, apiKey |-> FALSE]
  /\ lastLLMMessages = NoMessages
  /\ simRunning = FALSE
  /\ simLoop = 0
  /\ simState = defaultState
  /\ simRecentHighCount = 0
  /\ snapIntervention = Null
  /\ lastIntervention = Null
  /\ lastExplanation = Null
  /\ lastRisks = Null
  /\ prevSignature = NoSignature
  /\ rendered = Null

\* The page once main.ts has run: module-level initialisers, then the first
\* update(), which finds level 1 and so leaves the fresh controller as it is.
AppInit ==
  /\ CtlInit
  /\ PureParked
  /\ state = defaultState
  /\ recentHighCount = 0
  /\ timelineEvents = << >>
  /\ llmConfig \in [enabled : BOOLEAN, apiKey : BOOLEAN]
  /\ lastLLMMessages = NoMessages
  /\ simRunning = FALSE
  /\ simLoop = 0
  /\ simState = defaultState
  /\ simRecentHighCount = 0
  /\ snapIntervention = Null
  /\ lastIntervention = evaluation(defaultState, 0).intervention
  /\ lastExplanation = evaluation(defaultState, 0).explanation
  /\ lastRisks = evaluation(defaultState, 0).risks
  /\ prevSignature = NoSignature
  /\ rendered = panels(evaluation(defaultState, 0).intervention,
                       evaluation(defaultState, 0).explanation, NoMessages, llmConfig)

\* The step stays within cap invocations of the controller.
Within(cap) == Len(reqs') <= cap

\* The page with the stored configuration left as it is.
AppNext ==
  \/ sliderInput /\ Within(MaxAppRequests)
  \/ forceRefreshLLM /\ Within(MaxAppRequests)
  \/ resetAll
  \/ randomize /\ Within(MaxAppRequests)
  \/ \E r \in 1..MaxAppRequests : appTimerFires(r)
  \/ \E c \in 1..MaxAppRequests : appSettles(c)

SpecApp == AppInit /\ [][AppNext]_vars

\* The page with its configuration panel.
ConfigNext ==
  \/ sliderInput /\ Within(MaxConfigRequests)
  \/ wearToggleChange /\ Within(MaxConfigRequests)
  \/ llmToggleChange /\ Within(MaxConfigRequests)
  \/ apiKeyChange
  \/ forceRefreshLLM /\ Within(MaxConfigRequests)
  \/ resetAll
  \/ randomize /\ Within(MaxConfigRequests)
  \/ \E r \in 1..MaxConfigRequests : appTimerFires(r)
  \/ \E c \in 1..MaxConfigRequests : appSettles(c)

SpecConfig == AppInit /\ [][ConfigNext]_vars

\* The page with the 24-hour simulation.
SimNext ==
  \/ sliderInput /\ Within(MaxSimRequests)
  \/ forceRefreshLLM /\ Within(MaxSimRequests)
  \/ runSimulation
  \/ simStep /\ Within(MaxSimRequests)
  \/ simFinish /\ Within(MaxSimRequests)
  \/ resetAll
  \/ \E r \in 1..MaxSimRequests : appTimerFires(r)
  \/ \E c \in 1..MaxSimRequests : appSettles(c)

SpecSim == AppInit /\ [][SimNext]_vars

\* The page with the simulation and sliders that reach the High band.
CountNext ==
  \/ sliderInputHigh /\ Within(MaxSimRequests)
  \/ runSimulation
  \/ simStep /\ Within(MaxSimRequests)
  \/ simFinish /\ Within(MaxSimRequests)
  \/ resetAll
  \/ \E r \in 1..MaxSimRequests : appTimerFires(r)
  \/ \E c \in 1..MaxSimRequests : appSettles(c)

SpecCount == AppInit /\ [][CountNext]_vars

\* ---------------------------------------------- pure-function harness


\* Scores around the band thresholds: 39.999, 40, 69.999, 70.
TestScores == {40 * Scale - 1, 40 * Scale, 70 * Scale - 1, 70 * Scale}

\* States that differ in what selectIntervention reads.
TestStates ==
  { [defaultState EXCEPT !.timeOfDay = t, !.useWearables = w, !.heartRate = hr,
                         !.spO2 = o, !.staffLoad = sl] :
      t \in {3, 14}, w \in BOOLEAN, hr \in {120, 121}, o \in {89, 90},
      sl \in {65, 66} }

TestRisks ==
  [fall : TestScores, cognitive : TestScores, loneliness : TestScores,
   overall : TestScores]

PureInit ==
  /\ pin \in [state : TestStates, risks : TestRisks, recentHighCount : 0..MaxHigh]
  /\ pout = NoCall
  /\ CtlInit
  /\ AppParked

applySelectIntervention ==
  /\ pout = NoCall
  /\ pout' = [fn |-> "selectIntervention",
              val |-> selectIntervention(pin.state, pin.risks, pin.recentHighCount)]
  /\ UNCHANGED <<pin, ctlVars, appVars>>

PureNext == applySelectIntervention

SpecPure == PureInit /\ [][PureNext]_vars

\* ------------------------------------------- decision-engine harness
\* One call of computeRisks, urgencyBand, buildExplanation or isNightHour on
\* arguments drawn from the sets below, or one evaluation of the page for two
\* states that differ in the vitals only.

\* Whole days the hours handed to isNightHour lie away from [0, 24).
MaxTurns == 1

\* Signals at the ends of their ranges (types.ts: 0-100, 40-140, 85-100).
RiskStates ==
  { [defaultState EXCEPT !.timeOfDay = t, !.mobility = m, !.restlessness = r,
                         !.speechDrift = sp, !.socialIsolation = so,
                         !.useWearables = w, !.heartRate = hr, !.spO2 = o] :
      t \in {3, 14}, m \in {0, 100}, r \in {0, 100}, sp \in {0, 100}, so \in {0, 100},
      w \in BOOLEAN, hr \in {40, 140}, o \in {85, 100} }

\* Deviations of either sign, not tied to the state.
RiskDeviations ==
  [mobility : {0 - 3 * Scale, 9 * Scale}, restlessness : {0 - 3 * Scale, 9 * Scale},
   speech : {0 - 3 * Scale, 9 * Scale}, social : {0 - 3 * Scale, 9 * Scale}]

\* Scores next to 0, 40, 70 and 100, one step below, at, and one step above.
BandScores ==
  { n * Scale + d : n \in {0, 39, 40, 41, 69, 70, 71, 100}, d \in {0 - 1, 0, 1} }

\* States on both sides of every checklist threshold; mobility 40,
\* restlessness 60, night and staff load 72 all weigh 0.6.
ExplanationStates ==
  { [defaultState EXCEPT !.timeOfDay = t, !.mobility = m, !.restlessness = r,
                         !.speechDrift = sp, !.socialIsolation = so, !.staffLoad = sl,
                         !.useWearables = w, !.heartRate = hr, !.spO2 = o] :
      t \in {3, 14}, m \in {0, 40, 70}, r \in {25, 60, 100}, sp \in {20, 60},
      so \in {30, 60}, sl \in {40, 72}, w \in BOOLEAN, hr \in {72, 110}, o \in {90, 97} }

\* The deviations of the state, or mobility and restlessness deviations at
\* and just above 1.5.
ExplanationDeviations(st) ==
  { computeDeviations(DEFAULT_BASELINE, st) }
  \cup [mobility : {(15 * Scale) \div 10, (15 * Scale) \div 10 + 1},
        restlessness : {(15 * Scale) \div 10, (15 * Scale) \div 10 + 1},
        speech : {0}, social : {0}]

\* Sleep windows: wrapping past midnight, within one day, and empty.
Windows ==
  { [DEFAULT_BASELINE EXCEPT !.sleepStart = w[1], !.sleepEnd = w[2]] :
      w \in { <<22, 6>>, <<1, 5>>, <<6, 6>>, <<23, 22>> } }

\* States the page evaluates, and the vitals of the state compared with each.
PairStates ==
  { [defaultState EXCEPT !.timeOfDay = t, !.mobility = m, !.speechDrift = sp,
                         !.staffLoad = sl, !.useWearables = w] :
      t \in {3, 14}, m \in {30, 70}, sp \in {20, 90}, sl \in {40, 70}, w \in BOOLEAN }

\* Deviations handed to an evaluation: the mobility and restlessness
\* deviations agree in sign.
EvaluationDeviations == { d \in RiskDeviations : d.mobility = d.restlessness }

EngineInputs ==
  [fn : {"computeRisks"}, state : RiskStates, deviations : RiskDeviations]
  \cup [fn : {"urgencyBand"}, score : BandScores]
  \cup UNION { { [fn |-> "buildExplanation", state |-> st, deviations |-> d] :
                   d \in ExplanationDeviations(st) } : st \in ExplanationStates }
  \cup [fn : {"isNightHour"}, hour : (0 - 24 * MaxTurns) .. (24 * MaxTurns + 24),
        baseline : Windows]
  \cup [fn : {"update"}, state : PairStates, heartRate : {40, 140}, spO2 : {85, 100},
        recentHighCount : 0..MaxHigh]
  \cup [fn : {"selectIntervention"}, state : RiskStates, staffLoad : {40, 70},
        deviations : EvaluationDeviations, recentHighCount : 0..MaxHigh]

EngineInit ==
  /\ pin \in EngineInputs
  /\ pout = NoCall
  /\ CtlInit
  /\ AppParked

applyComputeRisks ==
  /\ pout = NoCall
  /\ pin.fn = "computeRisks"
  /\ pout' = [fn |-> "computeRisks",
              val |-> computeRisks(pin.state, pin.deviations, DEFAULT_BASELINE)]
  /\ UNCHANGED <<pin, ctlVars, appVars>>

applyUrgencyBand ==
  /\ pout = NoCall
  /\ pin.fn = "urgencyBand"
  /\ pout' = [fn |-> "urgencyBand", val |-> urgencyBand(pin.score)]
  /\ UNCHANGED <<pin, ctlVars, appVars>>

\* buildExplanation as update() calls it: with the risks of the same state
\* and deviations.
applyBuildExplanation ==
  /\ pout = NoCall
  /\ pin.fn = "buildExplanation"
  /\ \E risks \in {computeRisks(pin.state, pin.deviations, DEFAULT_BASELINE)} :
       pout' = [fn |-> "buildExplanation",
                val |-> buildExplanation(pin.state, pin.deviations, risks,
                                         DEFAULT_BASELINE)]
  /\ UNCHANGED <<pin, ctlVars, appVars>>

applyIsNightHour ==
  /\ pout = NoCall
  /\ pin.fn = "isNightHour"
  /\ pout' = [fn |-> "isNightHour", val |-> isNightHour(pin.hour, pin.baseline)]
  /\ UNCHANGED <<pin, ctlVars, appVars>>

\* Everything update() and maybeRequestLLM() compute from page state st: the
\* risks, the intervention, the explanation and the enrichment context.
outputs(st, rhc) ==
  LET ev == evaluation(st, rhc)
      tf == ev.explanation.topFactors
  IN  [risks |-> ev.risks, intervention |-> ev.intervention,
       explanation |-> ev.explanation,
       context |-> buildLLMContext(st, ev.risks, ev.intervention.level,
                                   [i \in DOMAIN tf |-> tf[i].factor])]

\* The page evaluates pin.state, and the state that differs from it in heart
\* rate and SpO2 only.
applyUpdate ==
  /\ pout = NoCall
  /\ pin.fn = "update"
  /\ pout' = [fn |-> "update",
              val |-> [a |-> outputs(pin.state, pin.recentHighCount),
                       b |-> outputs([pin.state EXCEPT !.heartRate = pin.heartRate,
                                                       !.spO2 = pin.spO2],
                                     pin.recentHighCount)]]
  /\ UNCHANGED <<pin, ctlVars, appVars>>

\* selectIntervention on the scores computeRisks produces for the state.
applyEvaluation ==
  /\ pout = NoCall
  /\ pin.fn = "selectIntervention"
  /\ \E st \in {[pin.state EXCEPT !.staffLoad = pin.staffLoad]} :
     \E risks \in {computeRisks(st, pin.deviations, DEFAULT_BASELINE)} :
       pout' = [fn |-> "selectIntervention",
                val |-> [risks |-> risks,
                         intervention |->
                           selectIntervention(st, risks, pin.recentHighCount)]]
  /\ UNCHANGED <<pin, ctlVars, appVars>>

EngineNext ==
  \/ applyEvaluation
  \/ applyComputeRisks
  \/ applyUrgencyBand
  \/ applyBuildExplanation
  \/ applyIsNightHour
  \/ applyUpdate

SpecEngine == EngineInit /\ [][EngineNext]_vars

\* ------------------------------------------------- controller on its own

Init == CtlInit /\ PureParked /\ AppParked

Next ==
  \/ request /\ UNCHANGED <<pureVars, appVars>>
  \/ forceRequest /\ UNCHANGED <<pureVars, appVars>>
  \/ stopAll /\ UNCHANGED <<pureVars, appVars>>
  \/ \E r \in 1..MaxRequests : timerFires(r) /\ UNCHANGED <<pureVars, appVars>>
  \/ \E c \in 1..MaxRequests : settles(c) /\ UNCHANGED <<pureVars, appVars>>

Spec == Init /\ [][Next]_vars

\* ------------------------------------ controller with fair scheduling
\* The event loop runs a timeout that stays due, and a fetch that is awaited
\* settles.

\* Cap on request()/forceRequest() invocations under fair scheduling.
MaxLiveRequests == 2

timerStep(r) == timerFires(r) /\ UNCHANGED <<pureVars, appVars>>

settleStep(c) == settles(c) /\ UNCHANGED <<pureVars, appVars>>

LiveNext ==
  \/ request /\ Within(MaxLiveRequests) /\ UNCHANGED <<pureVars, appVars>>
  \/ forceRequest /\ Within(MaxLiveRequests) /\ UNCHANGED <<pureVars, appVars>>
  \/ stopAll /\ UNCHANGED <<pureVars, appVars>>
  \/ \E r \in 1..MaxLiveRequests : timerStep(r)
  \/ \E c \in 1..MaxLiveRequests : settleStep(c)

SpecLive ==
  /\ Init
  /\ [][LiveNext]_vars
  /\ \A r \in 1..MaxLiveRequests : WF_vars(timerStep(r))
  /\ \A c \in 1..MaxLiveRequests : WF_vars(settleStep(c))

\* ------------------------------------------------- derived observations

InFlight(c) == execs[c].outcome = "pending"

\* In flight with an intact cancellation token.
Live(c) == InFlight(c) /\ ~execs[c].aborted

LiveCalls == {c \in DOMAIN execs : Live(c)}

CallsOf(r) == {c \in DOMAIN execs : execs[c].req = r}

Callbacks(c) == {i \in DOMAIN log : log[i].call = c}

Delivered == {i \in DOMAIN log : log[i].cb = "onResult"}

\* This step is an invocation of request() / forceRequest().
Invoked(k) == Len(reqs') = Len(reqs) + 1 /\ reqs'[Len(reqs')].kind = k

\* This step is the end of call c's network activity.
Settling(c) == InFlight(c) /\ execs'[c].outcome # "pending"

\* This step invokes a callback.
Calling == Len(log') = Len(log) + 1

\* ----------------------------------------------------------------- C1
\* C1: at most one call with an intact cancellation token is in flight, and
\* every call but the most recently started one has had its token triggered
\* (each start aborts the previously started call).
C1_AtMostOneInflight ==
  /\ Cardinality(LiveCalls) <= 1
  /\ \A c \in DOMAIN execs : c < Len(execs) => execs[c].aborted

\* A second call was started while the first was still in flight.
C1_Witness ==
  /\ Len(execs) >= 2
  /\ InFlight(1) /\ execs[1].aborted
  /\ Live(2)

\* ----------------------------------------------------------------- C2
\* C2: when the network call of a cancelled call ends, successfully or not,
\* no callback is invoked and status and callCount keep their values.
C2_CancelledIsSilent ==
  [][\A c \in DOMAIN execs :
       (execs[c].aborted /\ Settling(c)) =>
         (log' = log /\ currentStatus' = currentStatus /\ calls' = calls)]_vars

\* One cancelled call completed with a 2xx response and another failed, and
\* neither reached a callback.
C2_Witness ==
  \E c, d \in DOMAIN execs :
    /\ execs[c].aborted /\ execs[c].outcome = "http_ok" /\ Callbacks(c) = {}
    /\ execs[d].aborted /\ execs[d].outcome \in {"network_error", "http_error"}
    /\ Callbacks(d) = {}

\* ----------------------------------------------------------------- C3
\* C3: stopAll() leaves status 'idle', no timer pending and no un-aborted call
\* in flight, and no callback of a request made before a stopAll() is invoked
\* after it.
C3_StopAllSilences ==
  [][/\ stopAll => (currentStatus' = "idle" /\ timers' = {} /\ timerId' = 0
                     /\ \A c \in DOMAIN execs' : execs'[c].outcome = "pending"
                                                   => execs'[c].aborted)
     /\ Calling => ~reqs[execs[log'[Len(log')].call].req].stopped]_vars

\* stopAll() was called with a timer pending and a call in flight, and that
\* call completed afterwards.
C3_Witness ==
  /\ \E r \in DOMAIN reqs : reqs[r].over = "stop"
  /\ \E c \in DOMAIN execs :
       /\ reqs[execs[c].req].stopped
       /\ execs[c].outcome = "http_ok"
       /\ Callbacks(c) = {}

\* ----------------------------------------------------------------- C4
\* C4: request() replaces the pending timer by its own and aborts any
\* in-flight call at the moment it is called (right after a request() no call
\* with an intact cancellation token is in flight); it issues no call itself,
\* its call is issued when its timer fires.
C4_RequestAbortsInflight ==
  [][Invoked("request") =>
       /\ timers' = {Len(reqs')} /\ timerId' = Len(reqs')
       /\ Len(execs') = Len(execs)
       /\ \A c \in DOMAIN execs' :
            execs'[c].outcome = "pending" => execs'[c].aborted]_vars

\* ----------------------------------------------------------------- C5
\* C5: a request() overtaken by another request() while its timer was pending
\* never issues a call, a request() whose timer is still pending has issued
\* none, and a request() whose timer fired has issued exactly one call, with
\* its own arguments; at most one timer is pending.  So a burst of request()
\* calls issues exactly one call, that of the last request.
C5_Debounce ==
  /\ timers \subseteq {timerId}
  /\ \A r \in DOMAIN reqs :
       reqs[r].kind = "request" =>
         Cardinality(CallsOf(r)) = (IF reqs[r].over = "none" /\ r \notin timers
                                    THEN 1 ELSE 0)

\* Two request() calls in one debounce window, and the call of the second.
C5_Witness ==
  \E r, l \in DOMAIN reqs :
    /\ l = r + 1
    /\ reqs[r].kind = "request" /\ reqs[r].over = "request"
    /\ reqs[l].kind = "request" /\ CallsOf(l) # {}
    /\ Len(execs) = 1

\* ----------------------------------------------------------------- C6
\* C6: forceRequest() leaves no timer pending, starts its own call in the same
\* step with every earlier call aborted, and a request() it overtook never
\* issues a call.
C6_ForceRequest ==
  /\ [](\A c \in DOMAIN execs : reqs[execs[c].req].over # "force")
  /\ [][Invoked("force") =>
          /\ timers' = {} /\ timerId' = 0
          /\ Len(execs') = Len(execs) + 1
          /\ execs'[Len(execs')] =
               [req |-> Len(reqs'), aborted |-> FALSE, outcome |-> "pending"]
          /\ \A c \in DOMAIN execs : execs'[c].aborted]_vars

\* forceRequest() overtook a pending request() while a call was in flight.
C6_Witness ==
  \E r \in DOMAIN reqs, c \in DOMAIN execs :
    /\ reqs[r].over = "force"
    /\ c < Len(execs) /\ InFlight(c) /\ execs[c].aborted
    /\ reqs[execs[Len(execs)].req].kind = "force"
    /\ execs[Len(execs)].req > r

\* ----------------------------------------------------------------- C7
\* C7: a result is delivered only for the most recently started call, so the
\* delivered results are in issuance order.
C7_IssuanceOrder ==
  /\ [](\A i, j \in Delivered : i < j => log[i].call < log[j].call)
  /\ [][(Calling /\ log'[Len(log')].cb = "onResult")
          => log'[Len(log')].call = Len(execs)]_vars

\* Calls 1 and 3 delivered in that order; call 2, started between them,
\* completed after being superseded and delivered nothing.
C7_Witness ==
  /\ Len(execs) = 3
  /\ execs[2].outcome = "http_ok" /\ Callbacks(2) = {}
  /\ \E i, j \in Delivered : i < j /\ log[i].call = 1 /\ log[j].call = 3

\* ----------------------------------------------------------------- C8
\* C8: callCount() is the number of onResult invocations; it never decreases
\* and grows by one exactly in the steps that invoke onResult.
C8_CallCount ==
  /\ [](calls = Cardinality(Delivered))
  /\ [][/\ calls' >= calls
        /\ (calls' = calls + 1) <=> (Calling /\ log'[Len(log')].cb = "onResult")
        /\ calls' \in {calls, calls + 1}]_vars

\* One delivery, one error, one call cancelled by stopAll() that completed.
C8_Witness ==
  /\ calls = 1
  /\ \E i \in DOMAIN log : log[i].cb = "onError"
  /\ \E c \in DOMAIN execs :
       execs[c].aborted /\ execs[c].outcome = "http_ok" /\ reqs[execs[c].req].stopped

\* ----------------------------------------------------------------- C9
\* C9: when the network call of an un-cancelled call fails (network failure
\* or non-2xx response), status becomes 'error' and onError is invoked for
\* that call; no call ever gets more than one callback.
C9_FailureReported ==
  /\ [](\A c \in DOMAIN execs : Cardinality(Callbacks(c)) <= 1)
  /\ [][\A c \in DOMAIN execs :
          (~execs[c].aborted /\ Settling(c)
             /\ execs'[c].outcome \in {"network_error", "http_error"})
          => /\ currentStatus' = "error"
             /\ Calling /\ log'[Len(log')].cb = "onError" /\ log'[Len(log')].call = c
             /\ calls' = calls]_vars

\* A non-2xx response and a network failure were both reported.
C9_Witness ==
  /\ currentStatus = "error"
  /\ \E c, d \in DOMAIN execs :
       /\ execs[c].outcome = "http_error" /\ execs[d].outcome = "network_error"
       /\ \A x \in {c, d} : \E i \in Callbacks(x) : log[i].cb = "onError"

\* ---------------------------------------------------------------- C10
\* C10: a 2xx response of an un-cancelled call, whatever its content, is
\* delivered to onResult and never reported as an error.
C10_MalformedIsDefaulted ==
  [][\A c \in DOMAIN execs :
       (~execs[c].aborted /\ Settling(c) /\ execs'[c].outcome = "http_ok")
       => /\ Calling /\ log'[Len(log')].cb = "onResult"
          /\ currentStatus' # "error"]_vars

\* ---------------------------------------------------------------- C28
\* C28: the controller holds at most one timer handle and at most one
\* cancellation handle, and only for live resources: the timer handle is null
\* once its timer has fired or been cleared, no other timer stays scheduled,
\* and the cancellation handle is null unless the call it belongs to is still
\* in flight and not aborted (so none is left after stopAll, after
\* supersession, or after its call has completed).
C28_HandlesLive ==
  /\ timers = (IF timerId = 0 THEN {} ELSE {timerId})
  /\ abortCtrl # 0 => Live(abortCtrl)
  /\ \A c \in LiveCalls : abortCtrl = c

\* ---------------------------------------------------------------- C32
\* C32: status() is 'generating' exactly when a call whose cancellation token
\* has not been triggered is in flight; a request() that only arms the
\* debounce timer leaves status() as it was, so while a timer is pending and
\* no such call is in flight status() is 'idle' or 'error'.
C32_GeneratingIffLive ==
  /\ [](currentStatus = "generating" <=> LiveCalls # {})
  /\ []((timerId # 0 /\ LiveCalls = {}) => currentStatus \in {"idle", "error"})
  /\ [][Invoked("request") => currentStatus' = currentStatus]_vars

\* A timer is pending after a failed call: status() still reports 'error'.
C32_Witness ==
  /\ timerId # 0
  /\ LiveCalls = {}
  /\ currentStatus = "error"
  /\ \E c \in DOMAIN execs : execs[c].outcome # "pending" /\ Callbacks(c) # {}

\* ---------------------------------------------------------------- C33
\* Invocation r is the latest, and no stopAll() has followed it.
LastSurvives(r) == Len(reqs) = r /\ ~reqs[r].stopped

\* The callbacks invoked for the calls of invocation r.
CallbacksOf(r) == UNION { Callbacks(c) : c \in CallsOf(r) }

Selected == pout.fn = "selectIntervention"

InBand(name, band) == urgencyBand(pin.risks[name]) = band

\* The level-4 rule of the decision table.
Rule4 ==
  \/ /\ InBand("overall", "High")
     /\ pin.state.useWearables
     /\ (pin.state.heartRate > 120 \/ pin.state.spO2 < 90)
  \/ pin.recentHighCount >= 3

\* The level-3 rule of the decision table.
Rule3 ==
  \/ InBand("fall", "High")
  \/ InBand("overall", "Medium") /\ pin.state.staffLoad > 65

\* The level-2 rule of the decision table.
Rule2 ==
  \/ InBand("fall", "Medium")
  \/ InBand("loneliness", "Medium") \/ InBand("loneliness", "High")
  \/ InBand("cognitive", "Medium")

\* ---------------------------------------------------------------- C18
\* C18: selectIntervention returns level 4 exactly when (overall is High and
\* wearables are on and (heartRate > 120 or spO2 < 90)) or recentHighCount >= 3,
\* whatever the other inputs are.
C18_Level4 == Selected => (pout.val.level = 4 <=> Rule4)

\* recentHighCount = 3 with every score Low and nominal vitals gives level 4.
C18_Witness ==
  /\ Selected /\ pout.val.level = 4
  /\ pin.recentHighCount = 3
  /\ \A n \in {"fall", "cognitive", "loneliness", "overall"} : InBand(n, "Low")
  /\ ~pin.state.useWearables

\* ---------------------------------------------------------------- C19
\* C19: when the level-4 rule does not match, the level is 3 exactly when fall
\* is High or (overall is Medium and staffLoad > 65).
C19_Level3 == (Selected /\ ~Rule4) => (pout.val.level = 3 <=> Rule3)

\* fall High, overall not High, recentHighCount < 3: level 3.
C19_Witness ==
  /\ Selected /\ pout.val.level = 3
  /\ InBand("fall", "High") /\ ~InBand("overall", "High")
  /\ pin.recentHighCount < 3

\* ---------------------------------------------------------------- C20
\* C20: when neither the level-4 nor the level-3 rule matches, the level is 2
\* exactly when fall is Medium or loneliness is Medium or High or cognitive is
\* Medium, and 1 otherwise; the level is always one of 1, 2, 3, 4.
C20_Level2Or1 ==
  Selected =>
    /\ pout.val.level \in 1..4
    /\ (~Rule4 /\ ~Rule3) =>
         /\ pout.val.level = 2 <=> Rule2
         /\ pout.val.level = 1 <=> ~Rule2

\* A High cognitive score alone falls through to level 1.
C20_Witness ==
  /\ Selected /\ pout.val.level = 1
  /\ InBand("cognitive", "High")
  /\ InBand("fall", "Low") /\ InBand("loneliness", "Low")

\* ---------------------------------------------------------------- C21
\* The hour lies in the default sleep window, 22:00 to 06:00.
NightArg == pin.state.timeOfDay >= 22 \/ pin.state.timeOfDay < 6

\* C21: the template set is fixed by the level: residentMessage is null
\* exactly at level 1, staffMessage is null exactly at levels 1 and 2, and at
\* level 1 the environment cue is the soft warm floor-path lighting variant
\* exactly when the hour is a night hour.
C21_TemplateSet ==
  Selected =>
    /\ pout.val.residentMessage = Null <=> pout.val.level = 1
    /\ pout.val.staffMessage = Null <=> pout.val.level \in {1, 2}
    /\ pout.val.level = 1 =>
         (pout.val.environmentalCue = "Soft warm floor-path lighting" <=> NightArg)

\* Night, every band Low, nominal vitals: level 1 with the night cue and no
\* message.
C21_Witness ==
  /\ Selected /\ pout.val.level = 1
  /\ NightArg
  /\ \A n \in {"fall", "cognitive", "loneliness", "overall"} : InBand(n, "Low")
  /\ pout.val.environmentalCue = "Soft warm floor-path lighting"
  /\ pout.val.residentMessage = Null /\ pout.val.staffMessage = Null

\* ---------------------------------------------------------------- C30
\* C30: at level 3 the staff message gives the fall reasoning exactly when
\* fall >= 70, and whenever it gives the combined-risk reasoning the overall
\* band is Medium and staffLoad > 65.
C30_Level3Reason ==
  (Selected /\ pout.val.level = 3) =>
    /\ pout.val.staffMessage = "Soft alert: Fall risk elevated"
         <=> pin.risks.fall >= 70 * Scale
    /\ pout.val.staffMessage = "Soft alert: Combined risk moderate-high, staff load high"
         => (InBand("overall", "Medium") /\ pin.state.staffLoad > 65)
    /\ pout.val.staffMessage \in
         { "Soft alert: Fall risk elevated",
           "Soft alert: Combined risk moderate-high, staff load high" }

\* Level 3 chosen by the staff-load rule with fall just below 70.
C30_Witness ==
  /\ Selected /\ pout.val.level = 3
  /\ pin.risks.fall = 70 * Scale - 1
  /\ pout.val.staffMessage = "Soft alert: Combined risk moderate-high, staff load high"

\* ---------------------------------------------------------------- C35
\* Severity order of the bands.
BandRank(band) == CASE band = "Low" -> 1 [] band = "Medium" -> 2 [] OTHER -> 3

\* The level selected for the arguments with one score replaced.
LevelWith(name, score) ==
  selectIntervention(pin.state, [pin.risks EXCEPT ![name] = score],
                     pin.recentHighCount).level

\* Replacing score name by one of a band at least as severe never lowers the
\* level selected.
NeverLowers(name) ==
  Selected =>
    \A score \in TestScores :
      BandRank(urgencyBand(score)) >= BandRank(urgencyBand(pin.risks[name]))
        => LevelWith(name, score) >= pout.val.level

\* C35: raising only the cognitive band (Low to Medium to High), all other
\* inputs of selectIntervention fixed, never lowers the selected level.
C35_CognitiveMonotone == NeverLowers("cognitive")

\* ---------------------------------------------------------------- C36
\* C36: raising only the overall band (Low to Medium to High), all other
\* inputs of selectIntervention fixed, never lowers the selected level.
C36_OverallMonotone == NeverLowers("overall")

\* ---------------------------------------------------------------- C37
\* C37: at level 4 the staff message gives the vitals (SpO2) reasoning exactly
\* when wearables are enabled and spO2 < 90, and gives the repeated high-risk
\* pattern reasoning only when recentHighCount >= 3.
C37_Level4Reason ==
  (Selected /\ pout.val.level = 4) =>
    /\ pout.val.staffMessage = "PRIORITY: Vitals concern"
         <=> (pin.state.useWearables /\ pin.state.spO2 < 90)
    /\ pout.val.staffMessage = "PRIORITY: Repeated high-risk pattern detected"
         => pin.recentHighCount >= 3

\* ------------------------------------------- the decision engine observed

Applied(fn) == pout.fn = fn

\* ---------------------------------------------------------------- C22
\* C22: for every state with its signals in their ranges, and any deviations,
\* computeRisks returns fall, cognitive, loneliness and overall each within
\* 0 and 100 inclusive.
C22_RisksInRange ==
  Applied("computeRisks") =>
    \A n \in {"fall", "cognitive", "loneliness", "overall"} :
      pout.val[n] >= 0 /\ pout.val[n] <= 100 * Scale

\* Mobility 0, restlessness 100, night, large deviations: the fall terms sum
\* to 145 and the score returned is 100.
C22_Witness ==
  /\ Applied("computeRisks")
  /\ pin.state.mobility = 0 /\ pin.state.restlessness = 100 /\ pin.state.timeOfDay = 3
  /\ pin.deviations.mobility = 9 * Scale /\ pin.deviations.restlessness = 9 * Scale
  /\ pout.val.fall = 100 * Scale

\* ---------------------------------------------------------------- C23
\* C23: urgencyBand is a total step function with its boundaries exactly at 40
\* and 70: a score below 40 is Low, a score from 40 up to but excluding 70 is
\* Medium, a score of 70 or more is High.
C23_BandSteps ==
  Applied("urgencyBand") =>
    /\ pout.val \in {"Low", "Medium", "High"}
    /\ pin.score < 40 * Scale => pout.val = "Low"
    /\ (pin.score >= 40 * Scale /\ pin.score < 70 * Scale) => pout.val = "Medium"
    /\ pin.score >= 70 * Scale => pout.val = "High"

\* 70 exactly is High.
C23_Witness ==
  /\ Applied("urgencyBand")
  /\ pin.score = 70 * Scale
  /\ pout.val = "High"

\* ---------------------------------------------------------------- C24
\* The factors the checklist pushes for the arguments, in evaluation order.
Pushed == checklist(pin.state, pin.deviations, DEFAULT_BASELINE)

\* Where a returned factor stands in the checklist.
PushedAt(f) == CHOOSE k \in DOMAIN Pushed : Pushed[k] = f

\* Factor f ranks before the factor pushed at position k.
RanksBefore(f, k) ==
  \/ f.weight > Pushed[k].weight
  \/ f.weight = Pushed[k].weight /\ PushedAt(f) < k

\* C24: buildExplanation returns between 1 and 3 factors, each with a weight
\* in [0,1], sorted by weight descending with equal weights in the
\* checklist's evaluation order, and they are the 3 highest-ranked of the
\* factors the checklist pushed.
C24_TopFactors ==
  Applied("buildExplanation") =>
    LET top == pout.val.topFactors
    IN  /\ Len(top) \in 1..3
        /\ Len(top) = Min(3, Len(Pushed))
        /\ \A i \in DOMAIN top :
             /\ top[i].weight >= 0 /\ top[i].weight <= WeightScale
             /\ \E k \in DOMAIN Pushed : Pushed[k] = top[i]
        /\ \A i, j \in DOMAIN top : i < j => RanksBefore(top[i], PushedAt(top[j]))
        /\ \A k \in DOMAIN Pushed :
             (\A i \in DOMAIN top : top[i] # Pushed[k])
               => \A i \in DOMAIN top : RanksBefore(top[i], k)

\* Mobility 40, restlessness 60, night and staff load 72 all weigh 0.6: the
\* first three of the checklist are returned, in its order.
C24_Witness ==
  /\ Applied("buildExplanation")
  /\ pin.state.mobility = 40 /\ pin.state.restlessness = 60
  /\ pin.state.timeOfDay = 3 /\ pin.state.staffLoad = 72
  /\ pin.state.speechDrift = 20 /\ pin.state.socialIsolation = 30
  /\ ~pin.state.useWearables
  /\ pin.deviations.mobility * 10 <= 15 * Scale
  /\ pin.deviations.restlessness * 10 <= 15 * Scale
  /\ Len(Pushed) = 4
  /\ [i \in 1..3 |-> pout.val.topFactors[i].factor]
       = << "Reduced mobility stability", "Elevated restlessness", "Nighttime hours" >>

\* ---------------------------------------------------------------- C25
\* One of the ten checklist rules holds of the arguments.
RuleTriggered ==
  \/ pin.state.mobility < 50
  \/ pin.state.restlessness > 40
  \/ pin.state.timeOfDay >= 22 \/ pin.state.timeOfDay < 6
  \/ pin.state.speechDrift > 35
  \/ pin.state.socialIsolation > 45
  \/ pin.state.staffLoad > 60
  \/ pin.state.useWearables /\ pin.state.heartRate > 100
  \/ pin.state.useWearables /\ pin.state.spO2 < 93
  \/ pin.deviations.mobility * 10 > 15 * Scale
  \/ pin.deviations.restlessness * 10 > 15 * Scale

DefaultFactor ==
  [factor |-> "All signals within comfortable range", weight |-> WeightScale \div 10]

\* C25: buildExplanation returns the default factor (weight 0.1) exactly when
\* none of the ten rules is triggered, and then it is the only factor; on the
\* all-nominal daytime state the result is that single factor with the
\* Low-band narrative.
C25_DefaultFactor ==
  Applied("buildExplanation") =>
    LET top == pout.val.topFactors
        hasDefault == \E i \in DOMAIN top : top[i].factor = DefaultFactor.factor
    IN  /\ hasDefault <=> ~RuleTriggered
        /\ hasDefault => top = << DefaultFactor >>
        /\ (/\ pin.state = defaultState
            /\ pin.deviations = computeDeviations(DEFAULT_BASELINE, defaultState))
             => /\ top = << DefaultFactor >>
                /\ pout.val.narrative.band = "Low"
                /\ pout.val.narrative.names = << >>

\* The all-nominal daytime state.
C25_Witness ==
  /\ Applied("buildExplanation")
  /\ pin.state = defaultState
  /\ pin.deviations = computeDeviations(DEFAULT_BASELINE, defaultState)
  /\ pout.val.topFactors = << DefaultFactor >>
  /\ pout.val.narrative.band = "Low"

\* ---------------------------------------------------------------- C27
\* The sleep window of baseline b holds of the hour h of [0, 24).
InWindow(h, b) ==
  IF b.sleepStart > b.sleepEnd
  THEN h >= b.sleepStart \/ h < b.sleepEnd
  ELSE b.sleepStart <= h /\ h < b.sleepEnd

\* C27: isNightHour answers for the hour brought into [0, 24), so h, h + 24
\* and negative hours agree; the window wraps past midnight when
\* sleepStart > sleepEnd; with the default 22-to-6 window the hours 22, 23, 24
\* and 0 to 5 are night and 6 to 21 are not.
C27_NightHour ==
  Applied("isNightHour") =>
    /\ pout.val = InWindow(pin.hour % 24, pin.baseline)
    /\ pin.baseline = DEFAULT_BASELINE =>
         /\ pin.hour \in {22, 23, 24} \cup 0..5 => pout.val
         /\ pin.hour \in 6..21 => ~pout.val

\* Hour -3 is 21:00 and not night in the default window.
C27_Witness ==
  /\ Applied("isNightHour")
  /\ pin.baseline = DEFAULT_BASELINE
  /\ pin.hour = 0 - 3
  /\ ~pout.val

\* ---------------------------------------------------------------- C29
\* C29: with wearables disabled, two states that differ only in heartRate and
\* spO2 give the same risk scores, intervention (level and messages),
\* explanation factors and enrichment context.
C29_VitalsIgnored ==
  (Applied("update") /\ ~pin.state.useWearables) => pout.val.a = pout.val.b

\* Heart rate 140 and SpO2 85 against 72 and 97, wearables off, at level 4.
C29_Witness ==
  /\ Applied("update")
  /\ ~pin.state.useWearables
  /\ pin.heartRate = 140 /\ pin.spO2 = 85
  /\ pin.state.heartRate = 72 /\ pin.state.spO2 = 97
  /\ pout.val.a.intervention.level = 4
  /\ pout.val.a = pout.val.b

\* ---------------------------------------------------------------- C38
\* C38: for the scores computeRisks produces (overall the clamped blend
\* 0.40 fall + 0.30 cognitive + 0.30 loneliness), whenever the overall band is
\* High the selected level is at least 2, whatever the state, recentHighCount
\* and staff load.
C38_HighIsAtLeast2 ==
  (Applied("selectIntervention") /\ urgencyBand(pout.val.risks.overall) = "High")
    => pout.val.intervention.level >= 2

\* Overall High carried by cognitive and loneliness alone: fall is Low, the
\* vitals are unused, the count is 0, and the level is 2.
C38_Witness ==
  /\ Applied("selectIntervention")
  /\ urgencyBand(pout.val.risks.overall) = "High"
  /\ urgencyBand(pout.val.risks.fall) = "Low"
  /\ ~pin.state.useWearables /\ pin.recentHighCount = 0
  /\ pout.val.intervention.level = 2

\* ------------------------------------------------------ the page observed

\* This step invokes the page's error handler.
Failing == Calling /\ log'[Len(log')].cb = "onError"

\* The signature of what the page last evaluated.
CurrentSignature ==
  computeContextSignature(lastIntervention, lastRisks, lastExplanation, timelineEvents)

\* ---------------------------------------------------------------- C11
\* C11: a step in which an enrichment call fails and the page's error
\* handler runs leaves the cached messages as they were, and in every state,
\* whatever the controller's status and however calls have ended, the cached
\* intervention is the deterministic one for the current scenario.
C11_ErrorKeepsCache ==
  /\ [](lastIntervention = evaluation(state, recentHighCount).intervention)
  /\ [][Failing => lastLLMMessages' = lastLLMMessages]_vars

\* A call has delivered messages, a later call has failed, and the messages
\* of the first are still cached while the controller reports the error.
C11_Witness ==
  /\ Len(log) = 2
  /\ log[1].cb = "onResult"
  /\ log[2].cb = "onError"
  /\ lastLLMMessages = log[1].msgs
  /\ currentStatus = "error"
  /\ lastIntervention = evaluation(state, recentHighCount).intervention

\* ---------------------------------------------------------------- C12
\* C12: take an evaluation made on a slider move or by Randomize with
\* enrichment available, no simulation running and a resulting level of 2 or
\* more.  If its signature equals the stored one (which Randomize has just
\* emptied), the controller receives no request and the stored signature
\* stays; if it differs, the new signature is stored and the controller
\* receives exactly one request(), which starts no network call by itself.
GateStored == IF sliderInput THEN prevSignature ELSE NoSignature

C12_ChangeGate ==
  [][ ( /\ sliderInput \/ randomize
        /\ isLLMAvailable(llmConfig)
        /\ ~simRunning
        /\ lastIntervention'.level >= 2 )
      => IF CurrentSignature' = GateStored
         THEN /\ reqs' = reqs
              /\ execs' = execs
              /\ prevSignature' = GateStored
         ELSE /\ Invoked("request")
              /\ Len(execs') = Len(execs)
              /\ prevSignature' = CurrentSignature' ]_vars

\* The first evaluation at level 2 has issued one request; the scenario then
\* fell to level 1 (which stopped that request) and came back to the same
\* signature, and that evaluation issued nothing.
C12_Witness ==
  /\ isLLMAvailable(llmConfig)
  /\ lastIntervention.level >= 2
  /\ Len(reqs) = 1
  /\ reqs[1].kind = "request"
  /\ reqs[1].stopped
  /\ timers = {}
  /\ prevSignature = CurrentSignature

\* ---------------------------------------------------------------- C13
\* C13: an evaluation (slider move, Randomize or Reset) made with enrichment
\* available and no simulation running that yields level 1 sends the
\* controller no request, leaves no timer scheduled and no call with an
\* intact cancellation token, leaves the controller idle with both handles
\* null, and empties the cached messages; and a call whose token has been
\* triggered never invokes a handler of the page.
C13_Level1Stops ==
  [][ /\ ( /\ sliderInput \/ randomize \/ resetAll
           /\ isLLMAvailable(llmConfig)
           /\ ~simRunning'
           /\ lastIntervention'.level = 1 )
         => /\ Len(reqs') = Len(reqs)
            /\ Len(execs') = Len(execs)
            /\ timers' = {}
            /\ timerId' = 0
            /\ abortCtrl' = 0
            /\ LiveCalls' = {}
            /\ currentStatus' = "idle"
            /\ lastLLMMessages' = NoMessages
      /\ Calling => ~execs[log'[Len(log')].call].aborted ]_vars

\* A slider move back to level 1 (the stored signature is still there) has
\* stopped a call that was in flight; the call has since completed
\* successfully on the wire and nothing was delivered.
C13_Witness ==
  /\ isLLMAvailable(llmConfig)
  /\ lastIntervention.level = 1
  /\ prevSignature # NoSignature
  /\ \E c \in DOMAIN execs :
       /\ execs[c].aborted
       /\ reqs[execs[c].req].stopped
       /\ execs[c].outcome = "http_ok"
       /\ Callbacks(c) = {}
  /\ lastLLMMessages = NoMessages
  /\ currentStatus = "idle"

\* ---------------------------------------------------------------- C14
\* C14: from the start of runSimulation() until its loop has finished, no
\* step starts an enrichment network call and no step delivers an
\* enrichment result to the page.
C14_SimLockout ==
  [][ (simLoop > 0 \/ simLoop' > 0)
      => /\ Len(execs') = Len(execs)
         /\ Calling => log'[Len(log')].cb # "onResult" ]_vars

\* ---------------------------------------------------------------- C15
\* C15: every step that starts an enrichment network call, the firing of a
\* debounce timer included, is taken while the configuration is enabled and
\* has a non-empty API key.
C15_CallsOnlyWhenAvailable ==
  [][Len(execs') > Len(execs) => isLLMAvailable(llmConfig)]_vars

\* ---------------------------------------------------------------- C16
\* C16: panels written while enrichment is unavailable show the template
\* badge, the selector's resident and staff messages and the deterministic
\* narrative.
C16_UnavailableIsTemplate ==
  ~rendered.avail
    => /\ rendered.source = "template"
       /\ rendered.resident = "template"
       /\ rendered.staff = "template"
       /\ rendered.narrative = "template"

\* ---------------------------------------------------------------- C17
\* C17: a step in which the page calls forceRequest() (a forced refresh that
\* got past its early returns) starts a network call in that same step and
\* empties the stored signature; and whenever the stored signature is empty,
\* enrichment is available, no simulation runs and the level is 2 or more,
\* the gate decides to request.
C17_ForcedRefresh ==
  /\ [][ Invoked("force")
         => /\ Len(execs') = Len(execs) + 1
            /\ execs'[Len(execs')].outcome = "pending"
            /\ ~execs'[Len(execs')].aborted
            /\ execs'[Len(execs')].req = Len(reqs')
            /\ prevSignature' = NoSignature ]_vars
  /\ []( ( /\ prevSignature = NoSignature
           /\ isLLMAvailable(llmConfig)
           /\ ~simRunning
           /\ lastIntervention.level >= 2 )
         => gate(lastIntervention, CurrentSignature, llmConfig, simRunning,
                 prevSignature) = "request" )

\* A forced refresh made while the stored signature was the current one (the
\* only request before it was the one that stored it): its call is in
\* flight and the stored signature is empty.
C17_Witness ==
  /\ Len(reqs) = 2
  /\ reqs[1].kind = "request"
  /\ reqs[2].kind = "force"
  /\ CallsOf(2) # {}
  /\ \A c \in CallsOf(2) : Live(c)
  /\ prevSignature = NoSignature
  /\ lastIntervention.level >= 2

\* ---------------------------------------------------------------- C26
\* C26: recentHighCount is maintained once per evaluation cycle, interactive
\* (a slider move) as well as simulated (an iteration of the simulation loop,
\* the first one counting from 0): it is incremented when the cycle's overall
\* band is High and otherwise decreased by one with floor 0; it is never
\* negative.
C26_CounterMaintained ==
  /\ [](recentHighCount >= 0)
  /\ [][ (sliderInputHigh \/ simStep \/ runSimulation)
         => recentHighCount' =
              IF urgencyBand(lastRisks'.overall) = "High"
              THEN (IF runSimulation THEN 0 ELSE recentHighCount) + 1
              ELSE Max(0, (IF runSimulation THEN 0 ELSE recentHighCount) - 1) ]_vars

\* ---------------------------------------------------------------- C31
\* C31: delivering an enrichment result or error never itself issues a
\* request: the step that invokes a handler leaves the invocations, the
\* timer, the number of calls and the stored signature as they are; every
\* step adds at most one invocation, and none is added by a timer firing or a
\* call completing, so once nothing is pending no further call is made
\* without a user action.
C31_HandlersDoNotRequest ==
  [][ /\ Calling => /\ reqs' = reqs
                    /\ timerId' = timerId /\ timers' = timers
                    /\ Len(execs') = Len(execs)
                    /\ prevSignature' = prevSignature
      /\ Len(reqs') <= Len(reqs) + 1
      /\ Len(execs') <= Len(execs) + 1
      /\ Len(reqs') > Len(reqs) => (sliderInput \/ randomize \/ forceRefreshLLM)
      /\ (Len(execs') > Len(execs) /\ Len(reqs') = Len(reqs))
           => (timerId # 0 /\ timerId' = 0) ]_vars

\* A forced refresh has been answered: the stored signature is empty, so the
\* gate would request if a handler ran it, and nothing is pending.
C31_Witness ==
  /\ isLLMAvailable(llmConfig) /\ ~simRunning
  /\ lastIntervention.level >= 2
  /\ prevSignature = NoSignature
  /\ lastLLMMessages # NoMessages
  /\ \E i \in DOMAIN log : log[i].cb = "onResult"
  /\ timerId = 0 /\ timers = {}
  /\ \A c \in DOMAIN execs : execs[c].outcome # "pending"

\* ---------------------------------------------------------------- C34
\* C34: the gate never suppresses enrichment for a state whose call was
\* cancelled before completing: right after an evaluation with enrichment
\* available, no simulation running and level >= 2, if the cached enrichment
\* is empty then a debounce timer is pending, a call is in flight, or the
\* controller status is 'error'.
C34_NoSilentSuppression ==
  [][ ( /\ sliderInput \/ randomize \/ resetAll \/ llmToggleChange \/ wearToggleChange
        /\ isLLMAvailable(llmConfig')
        /\ ~simRunning'
        /\ lastIntervention'.level >= 2
        /\ lastLLMMessages' = NoMessages )
      => \/ timerId' # 0
         \/ \E c \in DOMAIN execs' : execs'[c].outcome = "pending" /\ ~execs'[c].aborted
         \/ currentStatus' = "error" ]_vars

\* ---------------------------------------------------------------- C39
\* The session in its default configuration: what resetAll() writes.
DefaultSession ==
  /\ state = defaultState
  /\ recentHighCount = 0
  /\ timelineEvents = << >>
  /\ lastLLMMessages = NoMessages
  /\ prevSignature = NoSignature
  /\ ~simRunning
  /\ currentStatus = "idle"
  /\ timerId = 0
  /\ LiveCalls = {}

\* C39: resetAll leaves the session in its default configuration, and the
\* session stays so through every step that is not a user action (a resumed
\* simulation loop, a timer firing, a call completing), a reset pressed while
\* a simulation run is in progress included.
C39_ResetIsStable ==
  /\ [][resetAll => DefaultSession']_vars
  /\ [][ ( /\ DefaultSession
           /\ \/ simStep
              \/ simFinish
              \/ \E r \in 1..MaxSimRequests : appTimerFires(r)
              \/ \E c \in 1..MaxSimRequests : appSettles(c) )
         => DefaultSession' ]_vars

\* ---------------------------------------------------------------- C40
\* C40: during a simulation run, the intervention level evaluated and
\* rendered for each simulated hour equals the level recorded in that hour's
\* snapshot by simulate24h.
C40_RenderedIsSnapshot ==
  [][ (runSimulation \/ simStep)
      => lastIntervention'.level = snapIntervention'.level ]_vars

====
